---- MODULE Spec2Model ----
(***************************************************************************)
(* Model of the multi-segment InSAR mosaicking script                      *)
(* src/insar_analysis/dhorse_merge_segments.py.                            *)
(*                                                                         *)
(* Rasters are sequences of rows, a row is a sequence of pixel values.     *)
(* Pixel values are fixed-point integers:                                  *)
(*   phase      in units of 1/TwoPi of a cycle (2*pi radians = TwoPi),     *)
(*   coherence  in tenths (0.7 = 7),                                       *)
(*   amplitude  in units of 1e-4 (1e-3 = 10),                              *)
(*   geometry   in units of the raster's own resolution step.              *)
(* NaN is a value outside the range of every raster value; the arithmetic  *)
(* below propagates it the way IEEE arithmetic does.                       *)
(***************************************************************************)
EXTENDS Integers, Sequences, FiniteSets, TLC

\* ------------------------------------------------------------------------
\* Bounds of the model
\* ------------------------------------------------------------------------
\* boundary_size and overlap_width of estimate_boundary_n, scaled down from
\* the defaults (400, 400) to windows the model can enumerate
N == 2
M == 2
\* longest strip handed to estimate_segment_offsets in the function harness
MaxK == 4
\* injected whole-cycle offsets of a segment range over -MaxCycle..MaxCycle
MaxCycle == 1
\* rasters handed to mask_scene_edges_rowwise have EdgeRows rows and up to
\* EdgeCols columns; n ranges over 1..MaxMask
EdgeRows == 2
EdgeCols == 5
MaxMask == 4

\* ------------------------------------------------------------------------
\* Program constants, in the model's fixed-point units
\* ------------------------------------------------------------------------
\* 2*np.pi, in phase units
TwoPi == 4
\* coh_thr = 0.7, in tenths
coh_thr == 7
\* atol = 1e-3 of np.isclose, in units of 1e-4
atol == 10
\* nr_segments = 4
nr_segments == 4

pols == <<"hh", "vv", "hv">>
pairs == <<"20170606_20170813", "20170606_20171009", "20170813_20171009">>

\* ------------------------------------------------------------------------
\* Numbers
\* ------------------------------------------------------------------------
NaN == 0 - 2^30

Abs(x) == IF x < 0 THEN 0 - x ELSE x
Min(a, b) == IF a <= b THEN a ELSE b
Max(a, b) == IF a >= b THEN a ELSE b

\* a - b of two floats
Sub(a, b) == IF a = NaN \/ b = NaN THEN NaN ELSE a - b

\* np.round(p / q) for q > 0: round to nearest, ties to the even integer
RoundHalfAway(p, q) ==
    LET f == Abs(p) \div q
        r == Abs(p) - f * q
        m == IF 2 * r >= q THEN f + 1 ELSE f
    IN  IF p < 0 THEN 0 - m ELSE m
NpRound(p, q) ==
    LET f == p \div q
        r == p - f * q
    IN  IF 2 * r < q THEN f
        ELSE IF 2 * r > q THEN f + 1
        ELSE IF f % 2 = 0 THEN f ELSE f + 1

\* the spacing of 32-bit floats (24 significant bits) at magnitude a
RECURSIVE Ulp32(_)
Ulp32(a) == IF a < 2^24 THEN 1 ELSE 2 * Ulp32(a \div 2)

\* astype(np.float32) of one value
AsFloat32(v) ==
    IF v = NaN THEN NaN
    ELSE LET u == Ulp32(Abs(v))
             r == NpRound(Abs(v), u) * u
         IN  IF v < 0 THEN 0 - r ELSE r

\* ------------------------------------------------------------------------
\* Arrays
\* ------------------------------------------------------------------------
Rows(a) == Len(a)
Cols(a) == IF Len(a) = 0 THEN 0 ELSE Len(a[1])
Shape(a) == <<Rows(a), Cols(a)>>

\* a[-n:, :m] and a[:n, :m]
TailRowsFromTop(a, n, m) ==
    [i \in 1..Min(n, Len(a)) |-> SubSeq(a[i], 1, Min(m, Len(a[i])))]
TailRows(a, n, m) ==
    LET lo == Max(1, Len(a) - n + 1)
    IN  [i \in 1..(Len(a) - lo + 1) |-> SubSeq(a[lo + i - 1], 1, Min(m, Len(a[lo + i - 1])))]
HeadRows(a, n, m) ==
    [i \in 1..Min(n, Len(a)) |-> SubSeq(a[i], 1, Min(m, Len(a[i])))]

\* numpy broadcasting of two 2-D shapes
Broadcastable(s, t) ==
    /\ s[1] = t[1] \/ s[1] = 1 \/ t[1] = 1
    /\ s[2] = t[2] \/ s[2] = 1 \/ t[2] = 1
BShape(s, t) ==
    <<IF s[1] = 1 THEN t[1] ELSE s[1], IF s[2] = 1 THEN t[2] ELSE s[2]>>
\* element (i, j) of a after broadcasting
At(a, i, j) == a[IF Rows(a) = 1 THEN 1 ELSE i][IF Cols(a) = 1 THEN 1 ELSE j]

\* results of a call: a value, or the exception that ended it
Ok(v) == [err |-> "none", val |-> v]
Raise(e) == [err |-> e, val |-> NaN]

\* np.nanmedian of a 2-D array, as twice the median (NaN when every element
\* is NaN)
NanMedian2(d) ==
    LET P == {p \in (1..Rows(d)) \X (1..Cols(d)) : d[p[1]][p[2]] # NaN}
        cnt == Cardinality(P)
        Kth(k) == CHOOSE v \in {d[p[1]][p[2]] : p \in P} :
                     /\ Cardinality({p \in P : d[p[1]][p[2]] < v}) < k
                     /\ k <= Cardinality({p \in P : d[p[1]][p[2]] <= v})
    IN  IF cnt = 0 THEN NaN
        ELSE IF cnt % 2 = 1 THEN 2 * Kth((cnt + 1) \div 2)
        ELSE Kth(cnt \div 2) + Kth(cnt \div 2 + 1)

\* ------------------------------------------------------------------------
\* estimate_boundary_n
\* ------------------------------------------------------------------------
\* the gate of line 22 at window pixel (i, j)
GateNonStrict(coh_n, coh_s, i, j) ==
    At(coh_n, i, j) >= coh_thr /\ At(coh_s, i, j) >= coh_thr
Gate(coh_n, coh_s, i, j) == At(coh_n, i, j) > coh_thr /\ At(coh_s, i, j) > coh_thr

\* np.where(mask, phi_n - phi_s, np.nan), given the four windows
BoundaryDiffSwapped(phi_n, coh_n, phi_s, coh_s) ==
    LET sh == BShape(BShape(Shape(coh_n), Shape(coh_s)),
                     BShape(Shape(phi_n), Shape(phi_s)))
    IN  [i \in 1..sh[1] |-> [j \in 1..sh[2] |->
            IF Gate(coh_n, coh_s, i, j)
            THEN Sub(At(phi_s, i, j), At(phi_n, i, j))
            ELSE NaN]]
BoundaryDiff(phi_n, coh_n, phi_s, coh_s) ==
    LET sh == BShape(BShape(Shape(coh_n), Shape(coh_s)),
                     BShape(Shape(phi_n), Shape(phi_s)))
    IN  [i \in 1..sh[1] |-> [j \in 1..sh[2] |->
            IF Gate(coh_n, coh_s, i, j)
            THEN Sub(At(phi_n, i, j), At(phi_s, i, j))
            ELSE NaN]]

WindowsBroadcast(phi_n, coh_n, phi_s, coh_s) ==
    /\ Broadcastable(Shape(coh_n), Shape(coh_s))
    /\ Broadcastable(Shape(phi_n), Shape(phi_s))
    /\ Broadcastable(BShape(Shape(coh_n), Shape(coh_s)),
                     BShape(Shape(phi_n), Shape(phi_s)))

\* int(np.round(med / (2*np.pi))); int() of NaN raises ValueError
IntRoundZeroForNaN(med2) == IF med2 = NaN THEN Ok(0) ELSE Ok(NpRound(med2, 2 * TwoPi))
IntRoundHalfAway(med2) ==
    IF med2 = NaN THEN Raise("ValueError") ELSE Ok(RoundHalfAway(med2, 2 * TwoPi))
IntRoundHalfUp(med2) ==
    IF med2 = NaN THEN Raise("ValueError") ELSE Ok((med2 + TwoPi) \div (2 * TwoPi))
IntRoundKeepsFloat(med2) ==
    IF med2 = NaN THEN Ok(NaN) ELSE Ok(NpRound(med2, 2 * TwoPi))
IntRound(med2) ==
    IF med2 = NaN THEN Raise("ValueError") ELSE Ok(NpRound(med2, 2 * TwoPi))

estimate_boundary_n(phi_north, coh_north, phi_south, coh_south) ==
    LET phi_n == TailRows(phi_north, N, M)
        phi_s == HeadRows(phi_south, N, M)
        coh_n == TailRows(coh_north, N, M)
        coh_s == HeadRows(coh_south, N, M)
    IN  IF ~WindowsBroadcast(phi_n, coh_n, phi_s, coh_s)
        THEN Raise("ValueError")
        ELSE IntRound(NanMedian2(BoundaryDiff(phi_n, coh_n, phi_s, coh_s)))

\* ------------------------------------------------------------------------
\* estimate_segment_offsets
\* ------------------------------------------------------------------------
\* estimate_boundary_n(phi_list[i-1], coh_list[i-1], phi_list[i], coh_list[i])
\* with Python's 0-based indices i-1, i; an index past the end of a list
\* raises IndexError
BoundaryOf(phi_list, coh_list, i) ==
    IF Len(phi_list) < i + 1 \/ Len(coh_list) < i + 1
    THEN Raise("IndexError")
    ELSE estimate_boundary_n(phi_list[i], coh_list[i], phi_list[i + 1], coh_list[i + 1])

FoldFromFirst(n12, n23, n34) ==
    LET c1 == 0
        c2 == c1 - n12
        c3 == c1 - n23
        c4 == c1 - n34
    IN  <<c1, c2, c3, c4>>
Fold(n12, n23, n34) ==
    LET c1 == 0
        c2 == c1 - n12
        c3 == c2 - n23
        c4 == c3 - n34
    IN  <<c1, c2, c3, c4>>

estimate_segment_offsets(phi_list, coh_list) ==
    LET n12 == BoundaryOf(phi_list, coh_list, 1)
        n23 == BoundaryOf(phi_list, coh_list, 2)
        n34 == BoundaryOf(phi_list, coh_list, 3)
    IN  IF n12.err # "none" THEN n12
        ELSE IF n23.err # "none" THEN n23
        ELSE IF n34.err # "none" THEN n34
        ELSE Ok(Fold(n12.val, n23.val, n34.val))

\* phi_corr = [phi - ci * 2*np.pi for phi, ci in zip(phi_list, c)]
Correct(phi, ci) ==
    [i \in 1..Rows(phi) |-> [j \in 1..Cols(phi) |-> Sub(phi[i][j], ci * TwoPi)]]
ZipNeighbour(phi_list, c) ==
    [s \in 1..Min(Len(phi_list), Len(c)) |-> Correct(phi_list[s], c[Max(1, s - 1)])]
Zip(phi_list, c) ==
    [s \in 1..Min(Len(phi_list), Len(c)) |-> Correct(phi_list[s], c[s])]

\* ------------------------------------------------------------------------
\* Input rasters the model enumerates
\* ------------------------------------------------------------------------
\* whole-cycle offsets injected into a segment
Cycles == (0 - MaxCycle)..MaxCycle

\* how one segment of a strip departs from its neighbours
Variants == {"clean", "half", "ramp", "nan", "thr", "lowcol", "lowrow", "thrcol"}

\* departure of the phase from the common ramp at pixel (i, j)
NoiseAt(variant, i, j) ==
    CASE variant \in {"half", "lowrow"} -> TwoPi \div 2
      [] variant \in {"ramp", "lowcol"} -> i
      [] variant = "nan" -> IF j = 1 THEN NaN ELSE TwoPi - 1
      [] variant = "thrcol" -> IF j = 1 THEN TwoPi ELSE 0
      [] OTHER -> 0

\* coherence at pixel (i, j) of a segment of r rows
CohAt(variant, i, j, r) ==
    CASE variant = "thr" -> coh_thr
      [] variant = "lowcol" -> IF j = 1 THEN coh_thr - 2 ELSE coh_thr + 2
      [] variant = "lowrow" -> IF i = r THEN coh_thr - 2 ELSE coh_thr + 1
      [] variant = "thrcol" -> IF j = 1 THEN coh_thr ELSE coh_thr + 2
      [] OTHER -> coh_thr + 2

\* a phase raster: a ramp across the columns, k whole cycles, and the noise
PhiArr(r, k, cyc, variant) ==
    [i \in 1..r |-> [j \in 1..k |->
        IF NoiseAt(variant, i, j) = NaN THEN NaN
        ELSE j + cyc * TwoPi + NoiseAt(variant, i, j)]]
CohArr(r, k, variant) ==
    [i \in 1..r |-> [j \in 1..k |-> CohAt(variant, i, j, r)]]

\* ------------------------------------------------------------------------
\* Reading the per-segment products
\* ------------------------------------------------------------------------
\* a product file that glob does not find
Missing == <<>>

RECURSIVE ConcatAll(_)
ConcatAll(l) == IF l = <<>> THEN <<>> ELSE Head(l) \o ConcatAll(Tail(l))

\* the files of one product for segments 1..nr_segments: product type 'i'
\* looks in s<seg>_<pol>/Igrams/<pair>, 'g' in s<seg>_<pol>/geom_reference
SegmentFiles(d, pair, pattern, product_type, pol) ==
    IF product_type = "i" THEN d.ifg[pol][pair][pattern] ELSE d.geom[pol][pattern]

\* gdal.Open(unw_path[0]).ReadAsArray()[:, :] per segment; unw_path[0] of an
\* empty glob result raises IndexError
populate_array_pattern(d, pair, pattern, product_type, pol) ==
    LET files == SegmentFiles(d, pair, pattern, product_type, pol)
    IN  IF \E s \in 1..nr_segments : files[s] = Missing
        THEN Raise("IndexError")
        ELSE Ok([s \in 1..nr_segments |-> files[s]])

\* os.path.join(stack_dir, f's{seg}_{pol}', 'Igrams', pair) and
\* os.path.join(stack_dir, f's{seg}_{pol}', 'geom_reference'), as path
\* components below stack_dir
SegmentPath(seg, p, product_type, q) ==
    IF product_type = "i" THEN <<"s", seg, p, "Igrams", q>>
    ELSE <<"s", seg, p, "geom_reference">>

\* what the interpreter prints for the uncaught exception of unw_path[0] on
\* an empty glob result: the exception type and its message
IndexErrorReport == {<<"IndexError">>, <<"list index out of range">>}

\* ...ReadAsArray()[band, :, :]: band is one 0-based index (a 2-D result) or
\* a list of indices (a 3-D result)
populate_array_pattern_multiband(d, pair, pattern, product_type, band, pol) ==
    LET files == SegmentFiles(d, pair, pattern, product_type, pol)
    IN  IF \E s \in 1..nr_segments : files[s] = Missing
        THEN Raise("IndexError")
        ELSE Ok([s \in 1..nr_segments |->
                    IF Len(band) = 1 THEN files[s][band[1] + 1]
                    ELSE [b \in 1..Len(band) |-> files[s][band[b] + 1]]])

\* ------------------------------------------------------------------------
\* Stacking and masking
\* ------------------------------------------------------------------------
\* np.vstack of 2-D arrays: the rows of the arrays one after the other; all
\* arrays must have the same number of columns
vstackReversed(l) ==
    IF \E s \in 1..Len(l) : Cols(l[s]) # Cols(l[1])
    THEN Raise("ValueError")
    ELSE Ok(ConcatAll([s \in 1..Len(l) |-> l[Len(l) + 1 - s]]))
vstackOverlapping(l) ==
    IF \E s \in 1..Len(l) : Cols(l[s]) # Cols(l[1])
    THEN Raise("ValueError")
    ELSE Ok(ConcatAll([s \in 1..Len(l) |-> IF s = 1 THEN l[s] ELSE Tail(l[s])]))
vstack(l) ==
    IF \E s \in 1..Len(l) : Cols(l[s]) # Cols(l[1])
    THEN Raise("ValueError")
    ELSE Ok(ConcatAll(l))

\* np.concatenate(l, axis=1) of 3-D arrays (bands, rows, cols)
concatenate_axis1(l) ==
    IF \E s \in 1..Len(l) : Len(l[s]) # Len(l[1]) \/ Cols(l[s][1]) # Cols(l[1][1])
    THEN Raise("ValueError")
    ELSE Ok([b \in 1..Len(l[1]) |-> ConcatAll([s \in 1..Len(l) |-> l[s][b]])])

\* np.isclose(a, 0.0, atol=1e-3): |a - 0| <= atol + rtol * |0|; False for NaN
IsCloseToZero(a) == a # NaN /\ Abs(a) <= atol

\* np.where(mask, x, np.nan) with mask = not isclose(amp, 0)
MaskedNever(amp, x) == x
Masked(amp, x) ==
    [i \in 1..Rows(x) |-> [j \in 1..Cols(x) |->
        IF IsCloseToZero(At(amp, i, j)) THEN NaN ELSE x[i][j]]]

\* ------------------------------------------------------------------------
\* write_isce_image
\* ------------------------------------------------------------------------
\* the image file (its float32 values in file order) and its XML/VRT sidecar
Image(data, width, length, bands, scheme, dtype) ==
    [data |-> data, width |-> width, length |-> length, bands |-> bands,
     scheme |-> scheme, dataType |-> dtype]

Float32Row(row) == [j \in 1..Len(row) |-> AsFloat32(row[j])]

\* 'bil', 'Bil', ... -> 'BIL'
Upper(scheme) ==
    CASE scheme \in {"BIL", "bil", "Bil"} -> "BIL"
      [] scheme \in {"BSQ", "bsq", "Bsq"} -> "BSQ"
      [] OTHER -> scheme

write_isce_image_untransposed(arr, ndim, dtype, scheme) ==
    IF ndim = 2
    THEN Ok(Image(ConcatAll([l \in 1..Rows(arr) |-> Float32Row(arr[l])]),
                  Cols(arr), Rows(arr), 1, Upper(scheme), dtype))
    ELSE Ok(Image(ConcatAll([b \in 1..Len(arr) |->
                      ConcatAll([l \in 1..Rows(arr[1]) |-> Float32Row(arr[b][l])])]),
                  Cols(arr[1]), Rows(arr[1]), Len(arr), Upper(scheme), dtype))
write_isce_image(arr, ndim, dtype, scheme) ==
    IF ndim = 2
    THEN Ok(Image(ConcatAll([l \in 1..Rows(arr) |-> Float32Row(arr[l])]),
                  Cols(arr), Rows(arr), 1, Upper(scheme), dtype))
    ELSE IF ndim = 3
    THEN LET bands == Len(arr)
             length == Rows(arr[1])
             width == Cols(arr[1])
         IN  IF Upper(scheme) = "BIL"
             THEN Ok(Image(ConcatAll([l \in 1..length |->
                               ConcatAll([b \in 1..bands |-> Float32Row(arr[b][l])])]),
                           width, length, bands, "BIL", dtype))
             ELSE IF Upper(scheme) = "BSQ"
             THEN Ok(Image(ConcatAll([b \in 1..bands |->
                               ConcatAll([l \in 1..length |-> Float32Row(arr[b][l])])]),
                           width, length, bands, "BSQ", dtype))
             ELSE Raise("ValueError")
    ELSE Raise("ValueError")

\* pixel (band b, line l, column x), 1-based, of an image read back the way
\* its sidecar describes it
ReadBack(img, b, l, x) ==
    IF img.scheme = "BIL"
    THEN img.data[((l - 1) * img.bands + (b - 1)) * img.width + x]
    ELSE img.data[((b - 1) * img.length + (l - 1)) * img.width + x]

\* ------------------------------------------------------------------------
\* The stack directory the script reads
\* ------------------------------------------------------------------------
Pols == {pols[x] : x \in 1..Len(pols)}
Pairs == {pairs[x] : x \in 1..Len(pairs)}
PolIndex(pol) == CHOOSE x \in 1..Len(pols) : pols[x] = pol

singleband_geometry_products == <<"hgt.rdr", "lat.rdr", "lon.rdr", "shadowMask.rdr">>
GeomProducts == {"hgt.rdr", "lat.rdr", "lon.rdr", "shadowMask.rdr", "los.rdr"}
IfgProducts == {"filt_*.unw", "filt_*.cor", "filt_*.conncomp"}

\* what is wrong with the files of one product: segment 2 has one column
\* more ("cols") or one column fewer ("narrow") than the other segments, or
\* its file is not there ("missing")
NoDefect == [kind |-> "none", prod |-> "none"]
Defects(prods) == [kind : {"cols", "narrow", "missing"}, prod : prods]

ColsOf(defect, prod, s) ==
    IF s = 2 /\ defect.prod = prod /\ defect.kind = "cols" THEN M + 1
    ELSE IF s = 2 /\ defect.prod = prod /\ defect.kind = "narrow" THEN M - 1
    ELSE M
IsMissing(defect, prod, s) == s = 2 /\ defect.prod = prod /\ defect.kind = "missing"

\* amplitude at pixel (i, j) of a segment of k columns
AmpPats == {"bright", "fill", "edge"}
AmpAt(amp, i, j, k) ==
    CASE amp = "fill" -> IF j = k THEN 1 ELSE 1000
      [] amp = "edge" -> IF j = 1 THEN (IF i = 1 THEN 0 - atol ELSE atol)
                         ELSE IF j = 2 THEN (IF i = 1 THEN atol + 1 ELSE NaN)
                         ELSE 0
      [] OTHER -> 1000

\* the interferogram products of one polarization and pair
IfgCases ==
    [k2 : Cycles, k3 : {0 - 1, 0}, variant : {"clean", "half", "nan", "thr", "lowcol"},
     amp : {"bright"}, tall : {0}, defect : {NoDefect}]
    \cup [k2 : Cycles, k3 : {0 - 1, 0}, variant : {"clean"}, amp : AmpPats, tall : {0},
          defect : {NoDefect}]
    \cup [k2 : Cycles, k3 : {0}, variant : {"clean"}, amp : {"fill"}, tall : {2},
          defect : {NoDefect}]
    \cup [k2 : {0}, k3 : {0}, variant : {"clean"}, amp : {"bright"}, tall : {0},
          defect : Defects(IfgProducts)]
CleanCase ==
    [k2 |-> 0, k3 |-> 0, variant |-> "clean", amp |-> "bright", tall |-> 0,
     defect |-> NoDefect]

IfgRows(case, s) == IF case.tall = s THEN N + 1 ELSE N
IfgFile(case, prod, s) ==
    LET r == IfgRows(case, s)
        k == ColsOf(case.defect, prod, s)
        cyc == IF s = 2 THEN case.k2 ELSE IF s = 3 THEN case.k3 ELSE 0
        variant == IF s = 2 THEN case.variant ELSE "clean"
    IN  IF IsMissing(case.defect, prod, s) THEN Missing
        ELSE IF prod = "filt_*.unw"
        THEN <<[i \in 1..r |-> [j \in 1..k |-> AmpAt(case.amp, i, j, k)]],
               PhiArr(r, k, cyc, variant)>>
        ELSE IF prod = "filt_*.cor" THEN CohArr(r, k, variant)
        ELSE [i \in 1..r |-> [j \in 1..k |-> IF j = 1 THEN 0 ELSE s]]

\* the geometry products of one polarization
GeoVariants == {"clean", "fine", "tall", "bypol"}
GeoCases ==
    [variant : GeoVariants, defect : {NoDefect}]
    \cup [variant : {"clean"}, defect : Defects(GeomProducts)]
CleanGeo == [variant |-> "clean", defect |-> NoDefect]

\* "fine": values that need more than the 24 significant bits of a float32
\* (hgt, lat, lon are rasters of doubles); "bypol": the files differ between
\* the polarizations
GeoVal(case, pol, x, s, i, j) ==
    1000 * x + 100 * s + 10 * i + j
    + (IF case.variant = "fine" /\ x <= 3 THEN 2^24 ELSE 0)
    + (IF case.variant = "bypol" THEN 10000 * PolIndex(pol) ELSE 0)
GeoRows(case, s) == IF case.variant = "tall" /\ s = 3 THEN N + 1 ELSE N
GeoFile(case, pol, prod, s) ==
    LET r == GeoRows(case, s)
        k == ColsOf(case.defect, prod, s)
        x == CASE prod = "hgt.rdr" -> 1 [] prod = "lat.rdr" -> 2
               [] prod = "lon.rdr" -> 3 [] prod = "shadowMask.rdr" -> 4
               [] OTHER -> 5
    IN  IF IsMissing(case.defect, prod, s) THEN Missing
        ELSE IF prod = "los.rdr"
        THEN [b \in 1..2 |-> [i \in 1..r |-> [j \in 1..k |->
                 GeoVal(case, pol, x + b - 1, s, i, j)]]]
        ELSE [i \in 1..r |-> [j \in 1..k |-> GeoVal(case, pol, x, s, i, j)]]

\* the directory: one polarization and pair holds the interferogram case,
\* every other one the clean case
StackDir(geo, tpol, tpair, case) ==
    [geom |-> [pol \in Pols |-> [prod \in GeomProducts |->
                  [s \in 1..nr_segments |-> GeoFile(geo, pol, prod, s)]]],
     ifg |-> [pol \in Pols |-> [pair \in Pairs |-> [prod \in IfgProducts |->
                  [s \in 1..nr_segments |->
                      IfgFile(IF pol = tpol /\ pair = tpair THEN case ELSE CleanCase,
                              prod, s)]]]]]

\* ------------------------------------------------------------------------
\* State
\* ------------------------------------------------------------------------
VARIABLES
    \* the merge script: position, loop indices into pols and pairs, the
    \* stack directory, the files written, the script's lists, the pairwise
    \* offsets estimated so far, and the exception that ended the run
    pc, pol_i, pair_i, dir_stack, out,
    phi_list, int_amp_list, coh_list, n_est, c, phi_corr, err,
    \* calls of the two estimators on a strip of K segments
    h_pc, h_phi, h_coh, h_n, h_ret, h_corr, h_re

VARIABLES
    \* grd_to_T3.py main: position, the command line, the file system it
    \* finds, whether the output folder exists, the message of sys.exit or the
    \* uncaught exception, the converter command run, the files written
    t3_pc, t3_argv, t3_fs, t3_out_isdir, t3_exit, t3_cmd, t3_written

t3vars == <<t3_pc, t3_argv, t3_fs, t3_out_isdir, t3_exit, t3_cmd, t3_written>>

VARIABLES
    \* create_mask.py main: position, the parsed arguments, the file system
    \* it finds, the *.bin names in the output directory, whether config.txt
    \* is in the input directory, tmp_cfg, before, the completed process of
    \* the executable, the message of sys.exit or the uncaught exception
    cm_pc, cm_args, cm_fs, cm_bins, cm_cfg, cm_tmp_cfg, cm_before, cm_cp, cm_exit

cmvars == <<cm_pc, cm_args, cm_fs, cm_bins, cm_cfg, cm_tmp_cfg, cm_before, cm_cp,
            cm_exit>>

VARIABLES
    \* raster_analysis.py mask_scene_edges_rowwise: position, the arguments
    \* (the band read from src_ds, n, transpose), the dataset returned
    e_pc, e_src, e_out

evars == <<e_pc, e_src, e_out>>

VARIABLES
    \* dhorse_merge_segments.py write_isce_image called on its own: position,
    \* the arguments and the files at outfile before the call, the files
    \* there after it, the exception that ended it
    w_pc, w_call, w_disk, w_err

wvars == <<w_pc, w_call, w_disk, w_err>>

VARIABLES
    \* uavsar_to_geotiff.py grd_tiff_convert: position, the arguments and
    \* what the call finds, the GeoTIFFs in out_dir, whether input() was
    \* called, what the call returned or raised
    g_pc, g_call, g_disk, g_prompted, g_ret

gvars == <<g_pc, g_call, g_disk, g_prompted, g_ret>>

VARIABLES
    \* haa_decomp.py build_expected_outputs and ran_ok: position, the flags,
    \* the completed process and the files in out_dir, the list expected,
    \* the value ran_ok returned
    d_pc, d_in, d_expected, d_ok

dvars == <<d_pc, d_in, d_expected, d_ok>>

\* the variables of the functions called on their own
yvars == <<wvars, gvars, dvars>>

\* the variables of the other scripts
xvars == <<t3vars, cmvars, evars, yvars>>

mvars == <<pc, pol_i, pair_i, dir_stack, out,
           phi_list, int_amp_list, coh_list, n_est, c, phi_corr, err>>
hvars == <<h_pc, h_phi, h_coh, h_n, h_ret, h_corr, h_re>>
vars == <<mvars, hvars, xvars>>

\* grd_to_T3.py is not run
T3Idle ==
    /\ t3_pc = "idle" /\ t3_argv = <<>> /\ t3_fs = <<>> /\ t3_out_isdir = FALSE
    /\ t3_exit = "none" /\ t3_cmd = <<>> /\ t3_written = {}
\* create_mask.py is not run
CMIdle ==
    /\ cm_pc = "idle" /\ cm_args = <<>> /\ cm_fs = <<>> /\ cm_bins = {}
    /\ cm_cfg = FALSE /\ cm_tmp_cfg = FALSE /\ cm_before = {} /\ cm_cp = <<>>
    /\ cm_exit = "none"
\* mask_scene_edges_rowwise is not called
EIdle == e_pc = "idle" /\ e_src = <<>> /\ e_out = <<>>
\* write_isce_image is not called on its own
WIdle == w_pc = "idle" /\ w_call = <<>> /\ w_disk = <<>> /\ w_err = "none"
\* grd_tiff_convert is not called
GIdle ==
    /\ g_pc = "idle" /\ g_call = <<>> /\ g_disk = <<>> /\ g_prompted = FALSE
    /\ g_ret = "none"
\* build_expected_outputs and ran_ok are not called on their own
DIdle == d_pc = "idle" /\ d_in = <<>> /\ d_expected = <<>> /\ d_ok = FALSE
YIdle == WIdle /\ GIdle /\ DIdle
XIdle == T3Idle /\ CMIdle /\ EIdle /\ YIdle

\* the estimators are not called on their own in a run of the script
HIdle ==
    /\ h_pc = "idle" /\ h_phi = <<>> /\ h_coh = <<>> /\ h_n = <<>>
    /\ h_ret = Raise("none") /\ h_corr = <<>> /\ h_re = <<>>
\* the script does not run while the estimators are called on their own
MIdle ==
    /\ pc = "idle" /\ pol_i = 1 /\ pair_i = 1 /\ dir_stack = <<>> /\ out = <<>>
    /\ phi_list = <<>> /\ int_amp_list = <<>> /\ coh_list = <<>>
    /\ n_est = <<>> /\ c = <<>> /\ phi_corr = <<>> /\ err = "none"

\* ------------------------------------------------------------------------
\* The estimators called on strips of 2..MaxK segments
\* ------------------------------------------------------------------------
HK == Len(h_phi)

HInit ==
    \E K \in 2..MaxK, r \in {N, N + 1}, k \in {M, M + 1},
       k2 \in Cycles, k3 \in {0 - MaxCycle, 0}, v \in 1..MaxK, variant \in Variants :
        /\ v <= K
        /\ (r = N) = (k = M)
        /\ h_phi = [s \in 1..K |->
                      PhiArr(r, k, IF s = 2 THEN k2 ELSE IF s = 3 THEN k3 ELSE 0,
                             IF s = v THEN variant ELSE "clean")]
        /\ h_coh = [s \in 1..K |-> CohArr(r, k, IF s = v THEN variant ELSE "clean")]
        /\ h_pc = "input"
        /\ h_n = <<>>
        /\ h_ret = Raise("none")
        /\ h_corr = <<>>
        /\ h_re = <<>>
        /\ MIdle
        /\ XIdle

\* estimate_boundary_n on every adjacent pair of the strip
HBoundaries ==
    /\ h_pc = "input"
    /\ h_n' = [i \in 1..(HK - 1) |->
                 estimate_boundary_n(h_phi[i], h_coh[i], h_phi[i + 1], h_coh[i + 1])]
    /\ h_pc' = "pairs"
    /\ UNCHANGED <<mvars, xvars, h_phi, h_coh, h_ret, h_corr, h_re>>

\* c = estimate_segment_offsets(phi_list, coh_list)
HOffsets ==
    /\ h_pc = "pairs"
    /\ h_ret' = estimate_segment_offsets(h_phi, h_coh)
    /\ h_pc' = IF h_ret'.err = "none" THEN "offsets" ELSE "raised"
    /\ UNCHANGED <<mvars, xvars, h_phi, h_coh, h_n, h_corr, h_re>>

\* phi_corr = [phi - ci * 2*np.pi for phi, ci in zip(phi_list, c)]
HCorrect ==
    /\ h_pc = "offsets"
    /\ h_corr' = Zip(h_phi, h_ret.val)
    /\ h_pc' = "corrected"
    /\ UNCHANGED <<mvars, xvars, h_phi, h_coh, h_n, h_ret, h_re>>

\* estimate_boundary_n again, on the corrected segments
HReestimate ==
    /\ h_pc = "corrected"
    /\ h_re' = [i \in 1..(Len(h_corr) - 1) |->
                  estimate_boundary_n(h_corr[i], h_coh[i], h_corr[i + 1], h_coh[i + 1])]
    /\ h_pc' = "checked"
    /\ UNCHANGED <<mvars, xvars, h_phi, h_coh, h_n, h_ret, h_corr>>

HNext == HBoundaries \/ HOffsets \/ HCorrect \/ HReestimate

SpecEst == HInit /\ [][HNext]_vars

\* ------------------------------------------------------------------------
\* The merge script: for pol in pols: ... for pair in pairs: ...
\* ------------------------------------------------------------------------
pol == pols[pol_i]
pair == pairs[pair_i]

\* output_dir/geom_reference/<name> and output_dir/Igrams/<pair>/<name>,
\* output_dir = dir_stack/mosaic_<pol>
GeomPath(p, name) == <<p, "geom_reference", name>>
IgramPath(p, q, name) == <<p, "Igrams", q, name>>
UnwName == "filt_snaphu.unw"
CorName == "filt.cor"
ConncompName == "filt_snaphu.unw.conncomp"

\* the files after one more write
Written(files, path, img) ==
    [f \in DOMAIN files \cup {path} |-> IF f = path THEN img ELSE files[f]]

MInit ==
    /\ \E geo \in GeoCases, t \in {1, Len(pols)}, case \in IfgCases :
        /\ geo = CleanGeo \/ (case = CleanCase /\ t = 1)
        /\ dir_stack = StackDir(geo, pols[t], pairs[t], case)
    /\ pc = "geom"
    /\ pol_i = 1
    /\ pair_i = 1
    /\ out = <<>>
    /\ phi_list = <<>>
    /\ int_amp_list = <<>>
    /\ coh_list = <<>>
    /\ n_est = <<>>
    /\ c = <<>>
    /\ phi_corr = <<>>
    /\ err = "none"
    /\ HIdle
    /\ XIdle

\* an uncaught exception ends the run
Fatal(e) ==
    /\ pc' = "fatal"
    /\ err' = e
    /\ UNCHANGED <<pol_i, pair_i, dir_stack, out, phi_list, int_amp_list, coh_list,
                   n_est, c, phi_corr, hvars, xvars>>

\* lines 142-156: the four single-band geometry products, one after the
\* other: read the segments, np.vstack, write_isce_image
GeomLoaded(p) ==
    [x \in 1..Len(singleband_geometry_products) |->
        populate_array_pattern(dir_stack, "None", singleband_geometry_products[x], "g", p)]
RECURSIVE GeomWritten(_, _, _)
GeomWritten(files, p, x) ==
    IF x > Len(singleband_geometry_products) THEN [files |-> files, err |-> "none"]
    ELSE LET name == singleband_geometry_products[x]
             read == GeomLoaded(p)[x]
             mosaic == vstack(read.val)
         IN  IF read.err # "none" THEN [files |-> files, err |-> read.err]
             ELSE IF mosaic.err # "none" THEN [files |-> files, err |-> mosaic.err]
             ELSE GeomWritten(
                     Written(files, GeomPath(p, name),
                             write_isce_image(mosaic.val, 2, "FLOAT", "BIL").val),
                     p, x + 1)

MosaicGeometry ==
    /\ pc = "geom"
    /\ LET w == GeomWritten(out, pol, 1)
       IN  /\ out' = w.files
           /\ pc' = IF w.err = "none" THEN "los" ELSE "fatal"
           /\ err' = w.err
    /\ UNCHANGED <<pol_i, pair_i, dir_stack, phi_list, int_amp_list, coh_list,
                   n_est, c, phi_corr, hvars, xvars>>

\* lines 158-160: the two-band line-of-sight product, read with pol='hh'
LosPol(p) == "hh"
MosaicLos ==
    /\ pc = "los"
    /\ LET los == populate_array_pattern_multiband(dir_stack, "None", "los.rdr", "g",
                                                   <<0, 1>>, LosPol(pol))
           mosaic_los == concatenate_axis1(los.val)
       IN  IF los.err # "none" THEN Fatal(los.err)
           ELSE IF mosaic_los.err # "none" THEN Fatal(mosaic_los.err)
           ELSE /\ out' = Written(out, GeomPath(pol, "los.rdr"),
                                  write_isce_image(mosaic_los.val, 3, "FLOAT", "BIL").val)
                /\ pc' = "read"
                /\ UNCHANGED <<pol_i, pair_i, dir_stack, phi_list, int_amp_list, coh_list,
                               n_est, c, phi_corr, err, hvars, xvars>>

\* lines 170-172: phase (band 1) and amplitude (band 0) of the unwrapped
\* interferograms, and the coherence
ReadIfg ==
    /\ pc = "read"
    /\ LET phi == populate_array_pattern_multiband(dir_stack, pair, "filt_*.unw", "i",
                                                   <<1>>, pol)
           amp == populate_array_pattern_multiband(dir_stack, pair, "filt_*.unw", "i",
                                                   <<0>>, pol)
           coh == populate_array_pattern(dir_stack, pair, "filt_*.cor", "i", pol)
       IN  IF phi.err # "none" THEN Fatal(phi.err)
           ELSE IF amp.err # "none" THEN Fatal(amp.err)
           ELSE IF coh.err # "none" THEN Fatal(coh.err)
           ELSE /\ phi_list' = phi.val
                /\ int_amp_list' = amp.val
                /\ coh_list' = coh.val
                /\ n_est' = <<>>
                /\ pc' = "estimate"
                /\ UNCHANGED <<pol_i, pair_i, dir_stack, out, c, phi_corr, err, hvars, xvars>>

\* lines 38-40, inside estimate_segment_offsets: the next boundary, n12,
\* then n23, then n34
EstimateBoundaryReversed ==
    /\ pc = "estimate"
    /\ LET n == BoundaryOf(phi_list, coh_list, 3 - Len(n_est))
       IN  IF n.err # "none" THEN Fatal(n.err)
           ELSE /\ n_est' = Append(n_est, n.val)
                /\ pc' = IF Len(n_est') = 3 THEN "offsets" ELSE "estimate"
                /\ UNCHANGED <<pol_i, pair_i, dir_stack, out, phi_list, int_amp_list,
                               coh_list, c, phi_corr, err, hvars, xvars>>
EstimateBoundary ==
    /\ pc = "estimate"
    /\ LET n == BoundaryOf(phi_list, coh_list, Len(n_est) + 1)
       IN  IF n.err # "none" THEN Fatal(n.err)
           ELSE /\ n_est' = Append(n_est, n.val)
                /\ pc' = IF Len(n_est') = 3 THEN "offsets" ELSE "estimate"
                /\ UNCHANGED <<pol_i, pair_i, dir_stack, out, phi_list, int_amp_list,
                               coh_list, c, phi_corr, err, hvars, xvars>>

\* lines 42-46 and 174-177: the absolute offsets and the corrected phases
CorrectPhase ==
    /\ pc = "offsets"
    /\ c' = Fold(n_est[1], n_est[2], n_est[3])
    /\ phi_corr' = Zip(phi_list, c')
    /\ pc' = "unw"
    /\ UNCHANGED <<pol_i, pair_i, dir_stack, out, phi_list, int_amp_list, coh_list,
                   n_est, err, hvars, xvars>>

\* lines 178-189: stack, mask where the amplitude is close to 0, write the
\* two-band image (amplitude, phase)
WriteUnw ==
    /\ pc = "unw"
    /\ LET mosaic_unw == vstack(phi_corr)
           mosaic_int_amp == vstack(int_amp_list)
       IN  IF mosaic_unw.err # "none" THEN Fatal(mosaic_unw.err)
           ELSE IF mosaic_int_amp.err # "none" THEN Fatal(mosaic_int_amp.err)
           ELSE LET mosaic_unw_masked == Masked(mosaic_int_amp.val, mosaic_unw.val)
                    mosaic_amp_masked == Masked(mosaic_int_amp.val, mosaic_int_amp.val)
                    twoband_unw == <<mosaic_amp_masked, mosaic_unw_masked>>
                IN  /\ out' = Written(out, IgramPath(pol, pair, UnwName),
                                      write_isce_image(twoband_unw, 3, "FLOAT", "BIL").val)
                    /\ pc' = "cor"
                    /\ UNCHANGED <<pol_i, pair_i, dir_stack, phi_list, int_amp_list,
                                   coh_list, n_est, c, phi_corr, err, hvars, xvars>>

\* lines 191-192: the coherence mosaic
WriteCor ==
    /\ pc = "cor"
    /\ LET mosaic_coh == vstack(coh_list)
       IN  IF mosaic_coh.err # "none" THEN Fatal(mosaic_coh.err)
           ELSE /\ out' = Written(out, IgramPath(pol, pair, CorName),
                                  write_isce_image(mosaic_coh.val, 2, "FLOAT", "BIL").val)
                /\ pc' = "conncomp"
                /\ UNCHANGED <<pol_i, pair_i, dir_stack, phi_list, int_amp_list,
                               coh_list, n_est, c, phi_corr, err, hvars, xvars>>

\* lines 194-196: the connected-component mosaic
MosaicConncomp ==
    /\ pc = "conncomp"
    /\ LET conncomp == populate_array_pattern(dir_stack, pair, "filt_*.conncomp", "i", pol)
           mosaic_conncomp == vstack(conncomp.val)
       IN  IF conncomp.err # "none" THEN Fatal(conncomp.err)
           ELSE IF mosaic_conncomp.err # "none" THEN Fatal(mosaic_conncomp.err)
           ELSE /\ out' = Written(out, IgramPath(pol, pair, ConncompName),
                                  write_isce_image(mosaic_conncomp.val, 2, "FLOAT", "BIL").val)
                /\ pc' = "next"
                /\ UNCHANGED <<pol_i, pair_i, dir_stack, phi_list, int_amp_list,
                               coh_list, n_est, c, phi_corr, err, hvars, xvars>>

\* lines 162 and 139: the loop headers take the next pair, after the last
\* pair the next polarization, after the last polarization the script ends
NextIteration ==
    /\ pc = "next"
    /\ pair_i' = IF pair_i < Len(pairs) THEN pair_i + 1 ELSE 1
    /\ pol_i' = IF pair_i < Len(pairs) \/ pol_i = Len(pols) THEN pol_i ELSE pol_i + 1
    /\ pc' = IF pair_i < Len(pairs) THEN "read"
             ELSE IF pol_i < Len(pols) THEN "geom" ELSE "done"
    /\ UNCHANGED <<dir_stack, out, phi_list, int_amp_list, coh_list, n_est, c,
                   phi_corr, err, hvars, xvars>>

Next ==
    \/ MosaicGeometry
    \/ MosaicLos
    \/ ReadIfg
    \/ EstimateBoundary
    \/ CorrectPhase
    \/ WriteUnw
    \/ WriteCor
    \/ MosaicConncomp
    \/ NextIteration

Spec == MInit /\ [][Next]_vars

\* ------------------------------------------------------------------------
\* src/psp_scripts/grd_to_T3.py
\* ------------------------------------------------------------------------
\* the command line: the value of -i, -o, -odf, -nlr ("" when the option is
\* not given) and whether --overwrite is on it
T3Argvs ==
    [input : {"", "in"}, output : {"", "out"}, odf : {"", "C3"}, nlr : {"", "2"},
     overwrite : BOOLEAN]
\* len(sys.argv)
ArgvLen(a) ==
    1 + (IF a.input # "" THEN 2 ELSE 0) + (IF a.output # "" THEN 2 ELSE 0)
      + (IF a.odf # "" THEN 2 ELSE 0) + (IF a.nlr # "" THEN 2 ELSE 0)
      + (IF a.overwrite THEN 1 ELSE 0)

\* parser.parse_args(): --overwrite is declared with action="store_false",
\* so args.overwrite is True unless the flag is given
ParseArgs(a) ==
    [input |-> a.input, output |-> a.output,
     output_matrix |-> IF a.odf = "" THEN "T3" ELSE a.odf,
     Nlooks_rows |-> IF a.nlr = "" THEN "1" ELSE a.nlr,
     Nlooks_columns |-> "1",
     overwrite |-> ~a.overwrite]

\* what the script finds on disk: whether the input folder and the output
\* folder (the one given, or <input>/T3) are directories, the number of
\* *.ann files, whether every *<pol>*.grd is there, grd_pwr.set_rows and
\* set_cols of the annotation file (0: the key is absent or 0), whether the
\* converter executable is there
T3FileSystems ==
    [in_isdir : BOOLEAN, out_isdir : BOOLEAN, ann : 0..2, grd : BOOLEAN,
     rows : {0, 3}, cols : {0, 4}, exe : BOOLEAN]

T3Usage == "usage"
NoInputMsg == "No input folder given."
NotFoundMsg == "Folder not found"
ExistsMsg == "Output folder already exists and overwrite is set to False, exiting..."

\* output_folder of lines 128 and 134
OutputFolder(args) == IF args.output = "" THEN <<args.input, "T3">> ELSE <<args.output>>

T3Init ==
    /\ t3_argv \in T3Argvs
    /\ t3_fs \in T3FileSystems
    /\ t3_out_isdir = t3_fs.out_isdir
    /\ t3_pc = "start"
    /\ t3_exit = "none"
    /\ t3_cmd = <<>>
    /\ t3_written = {}
    /\ MIdle
    /\ HIdle
    /\ CMIdle
    /\ EIdle
    /\ YIdle

nonT3 == <<mvars, hvars, cmvars, evars, yvars>>

T3Exit(msg) ==
    /\ t3_pc' = "exit"
    /\ t3_exit' = msg
    /\ UNCHANGED <<t3_argv, t3_fs, t3_out_isdir, t3_cmd, t3_written, nonT3>>
T3Goto(l) ==
    /\ t3_pc' = l
    /\ UNCHANGED <<t3_argv, t3_fs, t3_out_isdir, t3_exit, t3_cmd, t3_written, nonT3>>

\* lines 104-107: no argument at all
T3CheckArgv ==
    /\ t3_pc = "start"
    /\ IF ArgvLen(t3_argv) < 2 THEN T3Exit(T3Usage) ELSE T3Goto("input")

\* lines 119-125
T3CheckInput ==
    /\ t3_pc = "input"
    /\ LET args == ParseArgs(t3_argv)
       IN  IF args.input = "" THEN T3Exit(NoInputMsg)
           ELSE IF ~t3_fs.in_isdir THEN T3Exit(NotFoundMsg)
           ELSE T3Goto("output")

\* lines 127-140
T3CheckOutput ==
    /\ t3_pc = "output"
    /\ LET args == ParseArgs(t3_argv)
       IN  IF ~t3_out_isdir
           THEN /\ t3_out_isdir' = TRUE
                /\ t3_pc' = "run"
                /\ UNCHANGED <<t3_argv, t3_fs, t3_exit, t3_cmd, t3_written, nonT3>>
           ELSE IF args.output = "" \/ args.overwrite THEN T3Goto("run")
           ELSE T3Exit(ExistsMsg)

\* the command of lines 57-78
ConverterCmd(args, fs) ==
    [od |-> OutputFolder(args), odf |-> args.output_matrix,
     inr |-> fs.rows, inc |-> fs.cols, fnr |-> fs.rows, fnc |-> fs.cols,
     nlr |-> args.Nlooks_rows, nlc |-> args.Nlooks_columns]

\* lines 142-156 and run_psp_grdToT3: find_ann, find_polarizations,
\* read_rows_cols, the converter, metadata.json
T3Run ==
    /\ t3_pc = "run"
    /\ LET args == ParseArgs(t3_argv)
       IN  IF t3_fs.ann = 0 \/ ~t3_fs.grd THEN T3Exit("FileNotFoundError")
           ELSE IF t3_fs.rows = 0 \/ t3_fs.cols = 0 THEN T3Exit("ValueError")
           ELSE IF ~t3_fs.exe THEN T3Exit("FileNotFoundError")
           ELSE /\ t3_cmd' = ConverterCmd(args, t3_fs)
                /\ t3_written' = {<<OutputFolder(args), "metadata.json">>}
                /\ t3_pc' = "done"
                /\ UNCHANGED <<t3_argv, t3_fs, t3_out_isdir, t3_exit, nonT3>>

T3Next == T3CheckArgv \/ T3CheckInput \/ T3CheckOutput \/ T3Run

SpecT3 == T3Init /\ [][T3Next]_vars

\* ------------------------------------------------------------------------
\* src/psp_scripts/create_mask.py
\* ------------------------------------------------------------------------
\* the parsed arguments: -o ("" when not given: the output directory is the
\* input directory); -i is required; --overwrite only decides whether a
\* warning is printed
CMArgs == [output : {"", "out"}]

expected_names == {"mask_valid_pixels.bin", "ValidPixelsMask.bin"}
\* the *.bin names the model lets the output directory hold
BinNames == {"mask_valid_pixels.bin", "T11.bin"}

\* what the script finds on disk: whether the input is a directory; the
\* *.bin files in the output directory (none when it does not exist yet);
\* whether metadata.json is found and has rows and cols; whether a
\* config.txt is next to it and whether one is in the input directory
\* already; whether the executable is there
CMFileSystems ==
    [in_isdir : BOOLEAN, bins : SUBSET BinNames,
     meta : BOOLEAN, sizes : BOOLEAN, cfg_src : BOOLEAN, cfg_dst : BOOLEAN,
     exe : BOOLEAN]

\* what the executable can do: its return code, whether it prints the
\* banner, and the *.bin files it writes
banner == "A processing error occured"
CompletedProcesses ==
    [returncode : 0..2, out : {"", banner}, writes : SUBSET BinNames]

FailedMsg == "[ERROR] create_mask_valid_pixels failed or produced no mask output."

CMInit ==
    /\ cm_args \in CMArgs
    /\ cm_fs \in CMFileSystems
    /\ cm_fs.bins # {} /\ cm_args.output = "" => cm_fs.in_isdir
    /\ cm_bins = cm_fs.bins
    /\ cm_cfg = cm_fs.cfg_dst
    /\ cm_pc = "dirs"
    /\ cm_tmp_cfg = FALSE
    /\ cm_before = {}
    /\ cm_cp = <<>>
    /\ cm_exit = "none"
    /\ MIdle
    /\ HIdle
    /\ T3Idle
    /\ EIdle
    /\ YIdle

nonCM == <<mvars, hvars, t3vars, evars, yvars>>

CMExit(msg) ==
    /\ cm_pc' = "exit"
    /\ cm_exit' = msg
    /\ UNCHANGED <<cm_args, cm_fs, cm_bins, cm_cfg, cm_tmp_cfg, cm_before, cm_cp, nonCM>>
CMGoto(l) ==
    /\ cm_pc' = l
    /\ UNCHANGED <<cm_args, cm_fs, cm_bins, cm_cfg, cm_tmp_cfg, cm_before, cm_cp,
                   cm_exit, nonCM>>

\* lines 89-96: the input must be a directory; the output directory is
\* created when absent (a non-empty one only gets a warning)
CMCheckDirs ==
    /\ cm_pc = "dirs"
    /\ IF ~cm_fs.in_isdir THEN CMExit("[ERROR] not a directory") ELSE CMGoto("meta")

\* lines 98-99: find_metadata_json and load_sizes
CMLoadMeta ==
    /\ cm_pc = "meta"
    /\ IF ~cm_fs.meta THEN CMExit("RuntimeError")
       ELSE IF ~cm_fs.sizes THEN CMExit("TypeError")
       ELSE CMGoto("config")

\* line 102, ensure_config_in_input: copy config.txt into the input
\* directory unless one is there
CMEnsureConfig ==
    /\ cm_pc = "config"
    /\ cm_tmp_cfg' = (cm_fs.cfg_src /\ ~cm_cfg)
    /\ cm_cfg' = (cm_cfg \/ cm_fs.cfg_src)
    /\ cm_pc' = "exe"
    /\ UNCHANGED <<cm_args, cm_fs, cm_bins, cm_before, cm_cp, cm_exit, nonCM>>

\* lines 104-106
CMFindExe ==
    /\ cm_pc = "exe"
    /\ IF ~cm_fs.exe THEN CMExit("[ERROR] binary not found") ELSE CMGoto("run")

\* lines 108-123: before, and the run of the executable
CMRun ==
    /\ cm_pc = "run"
    /\ \E cp \in CompletedProcesses :
          /\ cm_cp' = cp
          /\ cm_bins' = cm_bins \cup cp.writes
    /\ cm_before' = cm_bins
    /\ cm_pc' = "report"
    /\ UNCHANGED <<cm_args, cm_fs, cm_cfg, cm_tmp_cfg, cm_exit, nonCM>>

\* lines 127-136: produced_mask and ok
ProducedMask(before, after) ==
    IF (after \ before) \cap expected_names # {}
    THEN (after \ before) \cap expected_names
    ELSE after \cap expected_names
RanOk(cp, before, after) ==
    \/ cp.returncode \in {0, 1} /\ cp.out # banner
    \/ ProducedMask(before, after) # {}

\* lines 126-147
CMReport ==
    /\ cm_pc = "report"
    /\ IF ~RanOk(cm_cp, cm_before, cm_bins) THEN CMExit(FailedMsg) ELSE CMGoto("cleanup")

\* lines 150-155: remove the temporary config.txt
CMCleanup ==
    /\ cm_pc = "cleanup"
    /\ cm_cfg' = (cm_cfg /\ ~cm_tmp_cfg)
    /\ cm_pc' = "done"
    /\ UNCHANGED <<cm_args, cm_fs, cm_bins, cm_tmp_cfg, cm_before, cm_cp, cm_exit, nonCM>>

CMNext ==
    \/ CMCheckDirs
    \/ CMLoadMeta
    \/ CMEnsureConfig
    \/ CMFindExe
    \/ CMRun
    \/ CMReport
    \/ CMCleanup

SpecMask == CMInit /\ [][CMNext]_vars

\* ------------------------------------------------------------------------
\* src/raster_analysis.py: mask_scene_edges_rowwise
\* ------------------------------------------------------------------------
\* data.T
Transpose(a) == [j \in 1..Cols(a) |-> [i \in 1..Rows(a) |-> a[i][j]]]

\* the 0-based indices of row[start:stop] of a row of w pixels: a negative
\* index counts from the end, an index outside the row is clamped
PyIndex(i, w) == IF i < 0 THEN Max(i + w, 0) ELSE Min(i, w)
PySlice(start, stop, w) == {k \in 0..(w - 1) : PyIndex(start, w) <= k /\ k < PyIndex(stop, w)}

\* lines 262-270: one row of the loop
MaskRowLeftOnly(row, n) ==
    LET valid_pixels == {k \in 0..(Len(row) - 1) : row[k + 1] # NaN}
        first_valid == CHOOSE k \in valid_pixels : \A q \in valid_pixels : k <= q
    IN  IF valid_pixels = {} THEN row
        ELSE [j \in 1..Len(row) |->
                 IF j - 1 \in PySlice(first_valid, first_valid + n, Len(row))
                 THEN NaN ELSE row[j]]
MaskRow(row, n) ==
    LET valid_pixels == {k \in 0..(Len(row) - 1) : row[k + 1] # NaN}
        first_valid == CHOOSE k \in valid_pixels : \A q \in valid_pixels : k <= q
        last_valid == CHOOSE k \in valid_pixels : \A q \in valid_pixels : k >= q
    IN  IF valid_pixels = {} THEN row
        ELSE [j \in 1..Len(row) |->
                 IF \/ j - 1 \in PySlice(first_valid, first_valid + n, Len(row))
                    \/ j - 1 \in PySlice(last_valid - n + 1, last_valid + 1, Len(row))
                 THEN NaN ELSE row[j]]

\* the dataset returned: band 1 as float32 (complex64 for complex data),
\* nodata NaN
mask_scene_edges_rowwise(src, n, transpose) ==
    LET data == IF transpose THEN Transpose(src) ELSE src
        masked == [ix \in 1..Rows(data) |-> MaskRow(data[ix], n)]
        back == IF transpose THEN Transpose(masked) ELSE masked
    IN  [data |-> [i \in 1..Rows(back) |-> Float32Row(back[i])],
         dtype |-> "float32", nodata |-> NaN]

\* the rows the model enumerates: pixel j is valid from column a to column
\* b, with a hole after the first valid pixel when hole is set; a > b is a
\* row without valid data
EdgeRow(i, w, a, b, hole) ==
    [j \in 1..w |-> IF j < a \/ j > b \/ (hole /\ j = a + 1) THEN NaN
                     ELSE 10 * i + j]
RowPatterns(w) ==
    {x \in {w} \X (1..w) \X (0..w) \X BOOLEAN :
        /\ x[3] >= x[2] \/ (x[2] = 1 /\ x[3] = 0)
        /\ x[4] => (x[2] = 1 /\ x[3] = w /\ w >= 3)}
EdgeRasters == UNION {[1..EdgeRows -> RowPatterns(w)] : w \in 1..EdgeCols}
EdgeRaster(r) == [i \in 1..EdgeRows |-> EdgeRow(i, r[i][1], r[i][2], r[i][3], r[i][4])]

EInit ==
    /\ \E r \in EdgeRasters, n \in 1..MaxMask, transpose \in BOOLEAN :
          e_src = [data |-> EdgeRaster(r), n |-> n, transpose |-> transpose]
    /\ e_pc = "call"
    /\ e_out = <<>>
    /\ MIdle
    /\ HIdle
    /\ T3Idle
    /\ CMIdle
    /\ YIdle

\* lines 250-286
MaskEdges ==
    /\ e_pc = "call"
    /\ e_out' = mask_scene_edges_rowwise(e_src.data, e_src.n, e_src.transpose)
    /\ e_pc' = "returned"
    /\ UNCHANGED <<e_src, mvars, hvars, t3vars, cmvars, yvars>>

ENext == MaskEdges

SpecEdges == EInit /\ [][ENext]_vars

\* ------------------------------------------------------------------------
\* write_isce_image called on its own
\* ------------------------------------------------------------------------
\* arrays of 0 to 4 dimensions: a scalar, a row, (length, width),
\* (bands, length, width), and one more axis around that
Arr2(r, k) == [i \in 1..r |-> [j \in 1..k |-> 10 * i + j]]
Arr3(b, r, k) == [x \in 1..b |-> [i \in 1..r |-> [j \in 1..k |-> 100 * x + 10 * i + j]]]
NdArray(ndim, b, r, k) ==
    CASE ndim = 0 -> 7
      [] ndim = 1 -> Arr2(1, k)[1]
      [] ndim = 2 -> Arr2(r, k)
      [] ndim = 3 -> Arr3(b, r, k)
      [] OTHER -> <<Arr3(b, r, k)>>

\* values of the scheme argument
Schemes == {"BIL", "bil", "Bil", "BSQ", "bsq", "Bsq", "BIP", "bip", ""}

\* what is at outfile before the call: nothing, or an image written earlier
NoImage == <<>>
OldImage == <<Image(<<0>>, 1, 1, 1, "BSQ", "FLOAT")>>

WInit ==
    /\ \E ndim \in 0..4, b \in 1..2, r \in 1..N, k \in 1..M, scheme \in Schemes,
          dtype \in {"FLOAT", "DOUBLE"}, before \in {NoImage, OldImage} :
          /\ w_call = [arr |-> NdArray(ndim, b, r, k), ndim |-> ndim, dtype |-> dtype,
                       scheme |-> scheme, before |-> before]
          /\ w_disk = before
    /\ w_pc = "call"
    /\ w_err = "none"
    /\ MIdle
    /\ HIdle
    /\ T3Idle
    /\ CMIdle
    /\ EIdle
    /\ GIdle
    /\ DIdle

\* lines 82-124: the raster file and its sidecars replace what was at
\* outfile, unless an exception ends the call before arr_out.tofile
WriteImage ==
    /\ w_pc = "call"
    /\ LET r == write_isce_image(w_call.arr, w_call.ndim, w_call.dtype, w_call.scheme)
       IN  /\ w_err' = r.err
           /\ w_disk' = IF r.err = "none" THEN <<r.val>> ELSE w_disk
           /\ w_pc' = IF r.err = "none" THEN "returned" ELSE "raised"
    /\ UNCHANGED <<w_call, mvars, hvars, t3vars, cmvars, evars, gvars, dvars>>

WNext == WriteImage

SpecWrite == WInit /\ [][WNext]_vars

\* ------------------------------------------------------------------------
\* src/psp_scripts/uavsar_to_geotiff.py: grd_tiff_convert
\* ------------------------------------------------------------------------
\* the GeoTIFFs of one input file in out_dir: out_fp, and for a slope file
\* out_fp with '.tiff' replaced by '.east.tiff' and '.north.tiff'
TiffNames == {"out_fp", "east", "north"}
\* a file is absent, there from an earlier run, or written by this call
TiffDisks == [TiffNames -> {"absent", "old"}]

\* the first of the checks of lines 141-178 that the call fails, if any
InputChecks == {"ok", "out_dir_isfile", "no_in_fp", "extensions", "no_ann", "type"}

\* the call: the product type of in_fp, the argument overwrite (True,
\* False, or the default 'user'), return_values, what the user types when
\* asked, whether the annotation file has the keys and sizes the
\* conversion looks up, and the GeoTIFFs already there
TiffCalls ==
    [type : {"grd", "slope"}, check : InputChecks, desc_ok : BOOLEAN,
     overwrite : {"True", "False", "user"}, return_values : BOOLEAN,
     typed : {"y", "Y", "n", "q"}, before : TiffDisks]

\* str.lower() of what the user types
Lower(a) == IF a = "Y" THEN "y" ELSE a

\* out_fp is what an earlier conversion of a file that is not a slope file
\* left, east and north what one of a slope file left
GInit ==
    /\ g_call \in TiffCalls
    /\ g_call.type = "slope" => g_call.before.out_fp = "absent"
    /\ g_call.type # "slope" => g_call.before.east = "absent" /\ g_call.before.north = "absent"
    /\ g_disk = g_call.before
    /\ g_pc = "call"
    /\ g_prompted = FALSE
    /\ g_ret = "none"
    /\ MIdle
    /\ HIdle
    /\ T3Idle
    /\ CMIdle
    /\ EIdle
    /\ WIdle
    /\ DIdle

nonG == <<mvars, hvars, t3vars, cmvars, evars, wvars, dvars>>

\* the call ends: with the value returned, or the exception raised
GEnd(l, r) ==
    /\ g_pc' = l
    /\ g_ret' = r

\* lines 138-178: the checks before the output file is looked at
GCheckInput ==
    /\ g_pc = "call"
    /\ IF g_call.check = "extensions" THEN GEnd("raised", "ValueError")
       ELSE IF g_call.check # "ok" THEN GEnd("raised", "Exception")
       ELSE GEnd("exists", "none")
    /\ UNCHANGED <<g_call, g_disk, g_prompted, nonG>>

\* ans of lines 185-197
Ans(call, exists) ==
    IF ~exists THEN "N"
    ELSE IF call.overwrite = "True" THEN "y"
    ELSE IF call.overwrite = "False" THEN "n"
    ELSE Lower(call.typed)

\* lines 185-203: an existing out_fp is removed or the call returns; when
\* neither branch of line 203 is taken the function ends without a return
GCheckExisting ==
    /\ g_pc = "exists"
    /\ LET exists == g_disk.out_fp # "absent"
           ans == Ans(g_call, exists)
       IN  /\ g_prompted' = (exists /\ g_call.overwrite = "user")
           /\ g_disk' = IF exists /\ ans = "y"
                        THEN [g_disk EXCEPT !.out_fp = "absent"] ELSE g_disk
           /\ IF ans = "n" THEN GEnd("returned", "None")
              ELSE IF ans = "y" \/ g_disk'.out_fp = "absent" THEN GEnd("convert", "none")
              ELSE GEnd("returned", "None")
    /\ UNCHANGED <<g_call, nonG>>

\* lines 205-349: the annotation is read, the data reshaped and written;
\* a slope file is written as its east and north GeoTIFFs
GConvert ==
    /\ g_pc = "convert"
    /\ IF ~g_call.desc_ok
       THEN GEnd("raised", "KeyError") /\ g_disk' = g_disk
       ELSE IF g_call.type = "slope"
       THEN /\ g_disk' = [g_disk EXCEPT !.east = "new", !.north = "new"]
            /\ GEnd("returned", "desc, z, type, slope_fps")
       ELSE /\ g_disk' = [g_disk EXCEPT !.out_fp = "new"]
            /\ GEnd("returned", IF g_call.return_values THEN "desc, z, type, out_fp"
                                ELSE "0")
    /\ UNCHANGED <<g_call, g_prompted, nonG>>

GNext == GCheckInput \/ GCheckExisting \/ GConvert

SpecTiff == GInit /\ [][GNext]_vars

\* ------------------------------------------------------------------------
\* src/psp_scripts/haa_decomp.py: build_expected_outputs and ran_ok
\* ------------------------------------------------------------------------
\* flags, lines 134: the values of fl1..fl9 in this order
FlagKeys == 1..9

\* FLAG_OUTPUTS.get(k, []) for k = fl<i>
FLAG_OUTPUTS(i) ==
    CASE i = 2 -> <<"lambda.bin">>
      [] i = 3 -> <<"alpha.bin">>
      [] i = 4 -> <<"entropy.bin">>
      [] i = 5 -> <<"anisotropy.bin">>
      [] i = 6 -> <<"combination_HA.bin">>
      [] i = 7 -> <<"combination_H1mA.bin">>
      [] i = 8 -> <<"combination_1mHA.bin">>
      [] i = 9 -> <<"combination_1mH1mA.bin">>
      [] OTHER -> <<>>

\* the list exp after the keys from fl<i> on are visited; a flag is enabled
\* when its value is not 0
RECURSIVE ExpectedFrom(_, _)
ExpectedFrom(flags, i) ==
    IF i > Len(flags) THEN <<>>
    ELSE (IF flags[i] = 0 THEN <<>> ELSE FLAG_OUTPUTS(i)) \o ExpectedFrom(flags, i + 1)
build_expected_outputs(flags) == ExpectedFrom(flags, 1)

\* banner in text, a text being the lines the process printed
Occurs(b, text) == \E l \in 1..Len(text) : text[l] = b

ran_ok_stdout_only(rc, stdout, stderr, expected_files, files) ==
    IF Occurs(banner, stdout) THEN FALSE
    ELSE IF rc \notin {0, 1} THEN FALSE
    ELSE {x \in 1..Len(expected_files) : expected_files[x] \notin files} = {}
ran_ok(rc, stdout, stderr, expected_files, files) ==
    IF Occurs(banner, stdout) \/ Occurs(banner, stderr) THEN FALSE
    ELSE IF rc \notin {0, 1} THEN FALSE
    ELSE {x \in 1..Len(expected_files) : expected_files[x] \notin files} = {}

\* the flag values the model enumerates: the defaults (fl3, fl4, fl5), every
\* flag on, up to two flags on, and one flag with a value other than 0 or 1
FlagSets ==
    {f \in [FlagKeys -> {0, 1}] :
        \/ Cardinality({i \in FlagKeys : f[i] = 1}) <= 2
        \/ {i \in FlagKeys : f[i] = 1} \in {{3, 4, 5}, FlagKeys}}
    \cup {[i \in FlagKeys |-> IF i = x THEN v ELSE 0] : x \in FlagKeys, v \in {0 - 1, 2}}

\* every file name of FLAG_OUTPUTS
HaaNames == UNION {{FLAG_OUTPUTS(i)[x] : x \in 1..Len(FLAG_OUTPUTS(i))} : i \in FlagKeys}
\* the files in out_dir after the run: all of them, all but one, or none
HaaDirs == {HaaNames} \cup {HaaNames \ {n} : n \in HaaNames} \cup {{}}

\* what the process printed on one stream
Texts == {<<>>, <<"Processing", banner>>}

DInit ==
    /\ d_in \in [flags : FlagSets, rc : 0..2, stdout : Texts, stderr : Texts,
                  files : HaaDirs]
    /\ d_pc = "call"
    /\ d_expected = <<>>
    /\ d_ok = FALSE
    /\ MIdle
    /\ HIdle
    /\ T3Idle
    /\ CMIdle
    /\ EIdle
    /\ WIdle
    /\ GIdle

nonD == <<mvars, hvars, t3vars, cmvars, evars, wvars, gvars>>

\* line 171
DBuildExpected ==
    /\ d_pc = "call"
    /\ d_expected' = build_expected_outputs(d_in.flags)
    /\ d_pc' = "expected"
    /\ UNCHANGED <<d_in, d_ok, nonD>>

\* line 172
DRanOk ==
    /\ d_pc = "expected"
    /\ d_ok' = ran_ok(d_in.rc, d_in.stdout, d_in.stderr, d_expected, d_in.files)
    /\ d_pc' = "returned"
    /\ UNCHANGED <<d_in, d_expected, nonD>>

DNext == DBuildExpected \/ DRanOk

SpecHaa == DInit /\ [][DNext]_vars

\* ------------------------------------------------------------------------
\* Properties
\* ------------------------------------------------------------------------
\* rows of the first s arrays of a list
RECURSIVE SumRows(_, _)
SumRows(l, s) == IF s = 0 THEN 0 ELSE SumRows(l, s - 1) + Rows(l[s])

\* the pixels (segment, row, column) of a list of segment arrays
PixelsOf(l) ==
    {x \in (1..Len(l)) \X (1..(N + 1)) \X (1..(M + 1)) :
        x[2] <= Rows(l[x[1]]) /\ x[3] <= Cols(l[x[1]])}

\* no pixel of the window of boundary (i, i+1) passes the coherence gate
NoPixelPasses(cohs, i) ==
    LET cn == TailRows(cohs[i], N, M)
        cs == HeadRows(cohs[i + 1], N, M)
        sh == BShape(Shape(cn), Shape(cs))
    IN  \A r \in 1..sh[1], q \in 1..sh[2] :
            At(cn, r, q) <= coh_thr \/ At(cs, r, q) <= coh_thr

\* C1: when no pixel of a boundary window passes the coherence gate, no
\* offset is returned for that boundary (not 0, not any integer): the run
\* ends in a ValueError and neither the corrected phases nor the mosaic of
\* that pair are produced.
C1_UndefinedOffsetIsFatal ==
    Len(coh_list) = nr_segments =>
        \A i \in 1..(nr_segments - 1) :
            NoPixelPasses(coh_list, i) =>
                /\ Len(n_est) < i
                /\ pc \in {"estimate", "fatal"}
                /\ pc = "fatal" => err = "ValueError"
                /\ IgramPath(pol, pair, UnwName) \notin DOMAIN out
C1_Witness ==
    /\ pc = "fatal"
    /\ err = "ValueError"
    /\ Len(coh_list) = nr_segments
    /\ \E i \in 1..(nr_segments - 1) :
          NoPixelPasses(coh_list, i) /\ Len(n_est) = i - 1

HCalled == h_pc \in {"offsets", "raised", "corrected", "checked"}

\* C2: for every strip of K >= 2 segments whose pairwise offsets n(i,i+1)
\* are defined, estimate_segment_offsets returns exactly K offsets with
\* c(1) = 0 and c(i+1) = c(i) - n(i,i+1).
C2_OffsetsForEveryK ==
    (HCalled /\ \A i \in 1..(HK - 1) : h_n[i].err = "none") =>
        /\ h_ret.err = "none"
        /\ Len(h_ret.val) = HK
        /\ h_ret.val[1] = 0
        /\ \A i \in 1..(HK - 1) : h_ret.val[i + 1] = h_ret.val[i] - h_n[i].val

\* the windows of boundary (i, i+1) differ by exactly n cycles at every
\* pixel, and every window pixel is coherent in both segments
Injected(i, n) ==
    LET pn == TailRows(h_phi[i], N, M)
        ps == HeadRows(h_phi[i + 1], N, M)
        cn == TailRows(h_coh[i], N, M)
        cs == HeadRows(h_coh[i + 1], N, M)
    IN  /\ Shape(pn) = Shape(ps) /\ Shape(cn) = Shape(pn) /\ Shape(cs) = Shape(pn)
        /\ \A r \in 1..Rows(pn), q \in 1..Cols(pn) :
              /\ pn[r][q] # NaN /\ ps[r][q] # NaN
              /\ pn[r][q] = ps[r][q] + n * TwoPi
              /\ cn[r][q] > coh_thr /\ cs[r][q] > coh_thr

\* C3: two segments whose window phases differ by exactly n_true cycles,
\* coherent everywhere in the window: estimate_boundary_n returns n_true.
C3_RecoversInjectedOffset ==
    h_pc \in {"pairs", "offsets", "raised", "corrected", "checked"} =>
        \A i \in 1..(HK - 1), n \in (0 - 2 * MaxCycle)..(2 * MaxCycle) :
            Injected(i, n) => h_n[i] = Ok(n)
C3_Witness ==
    /\ h_pc = "pairs"
    /\ \E i \in 1..(HK - 1) : Injected(i, 2) /\ h_n[i] = Ok(2)
    /\ \E i \in 1..(HK - 1) : Injected(i, 0 - 1)

\* C4: after phi_corrected(i) = phi(i) - c(i)*2pi, the offset estimated
\* again between corrected segments i and i+1 is 0 at every boundary.
C4_CorrectedBoundariesContinuous ==
    h_pc = "checked" =>
        \A i \in 1..(Len(h_corr) - 1) : h_re[i] = Ok(0)
C4_Witness ==
    /\ h_pc = "checked"
    /\ h_ret.val[2] # 0
    /\ h_ret.val[3] # h_ret.val[2]
    /\ \E s \in 1..Len(h_corr) : h_corr[s] # h_phi[s]

\* the corrected phases of the current pair exist
Corrected == pc \in {"unw", "cor", "conncomp", "next"}

\* C5: every pixel of every segment read for a pair is corrected with the
\* segment's own offset, phi_corrected(i) = phi(i) - c(i)*2pi; no segment
\* is left out of the corrected list.
C5_EverySegmentOwnOffset ==
    Corrected =>
        /\ Len(phi_corr) = Len(phi_list)
        /\ Len(c) = Len(phi_list)
        /\ c[1] = 0
        /\ \A s \in 1..(Len(phi_list) - 1) : c[s + 1] = c[s] - n_est[s]
        /\ \A s \in 1..Len(phi_list) :
              /\ Shape(phi_corr[s]) = Shape(phi_list[s])
              /\ \A i \in 1..Rows(phi_list[s]), j \in 1..Cols(phi_list[s]) :
                    phi_corr[s][i][j] =
                        IF phi_list[s][i][j] = NaN THEN NaN
                        ELSE phi_list[s][i][j] - c[s] * TwoPi
C5_Witness ==
    /\ pc = "unw"
    /\ c[2] # 0 /\ c[3] # c[2] /\ c[3] # 0 /\ c[4] # c[3]

\* the auxiliary files written so far in this iteration of the loops: the
\* geometry layers of the polarization, coherence and connected components
\* of the pair
AuxFiles ==
    {f \in DOMAIN out :
        /\ f[1] = pol
        /\ f[2] = "geom_reference" \/ (f[3] = pair /\ f[4] # UnwName)}
\* the segment arrays, band by band, that a written auxiliary file is the
\* mosaic of (the line-of-sight segments are those of 'hh')
AuxSource(f) ==
    IF f[2] = "geom_reference"
    THEN IF f[3] = "los.rdr"
         THEN [b \in 1..2 |-> [s \in 1..nr_segments |->
                  dir_stack.geom["hh"]["los.rdr"][s][b]]]
         ELSE <<dir_stack.geom[f[1]][f[3]]>>
    ELSE <<dir_stack.ifg[f[1]][f[3]][IF f[4] = CorName THEN "filt_*.cor"
                                     ELSE "filt_*.conncomp"]>>

\* the written image has the rows of the segments of src, band by band, one
\* segment after the other, and each of its pixels is NaN or the pixel
\* of that segment row, as a float32
StackedInOrder(img, src) ==
    /\ img.bands = Len(src)
    /\ img.width = Cols(src[1][1])
    /\ img.length = SumRows(src[1], Len(src[1]))
    /\ Len(img.data) = img.bands * img.length * img.width
    /\ \A b \in 1..Len(src) : \A x \in PixelsOf(src[b]) :
          LET v == ReadBack(img, b, SumRows(src[b], x[1] - 1) + x[2], x[3])
          IN  v = NaN \/ v = AsFloat32(src[b][x[1]][x[2]][x[3]])

\* C6: a mosaic is its segments stacked in input order along the rows: it
\* has sum(rows(i)) rows, the block of segment i+1 starts right after the
\* last row of segment i, and no row is inserted, dropped or blended.
C6_StackedInSegmentOrder ==
    /\ \A f \in AuxFiles : StackedInOrder(out[f], AuxSource(f))
    /\ pc \in {"cor", "conncomp", "next"} =>
          StackedInOrder(out[IgramPath(pol, pair, UnwName)], <<int_amp_list, phi_corr>>)
C6_Witness ==
    /\ pc = "conncomp"
    /\ Rows(phi_list[2]) = Rows(phi_list[1]) + 1
    /\ out[IgramPath(pol, pair, UnwName)].length = nr_segments * N + 1
    /\ c[2] # 0

\* C7: in the written two-band phase mosaic, per pixel: amplitude within
\* 1e-3 of zero -> both bands NaN; otherwise the amplitude band holds the
\* input amplitude and the phase band the corrected phase.
C7_AmplitudeMask ==
    pc \in {"cor", "conncomp", "next"} =>
        LET img == out[IgramPath(pol, pair, UnwName)]
        IN  \A x \in PixelsOf(int_amp_list) :
                LET a == int_amp_list[x[1]][x[2]][x[3]]
                    phi == phi_list[x[1]][x[2]][x[3]]
                    l == SumRows(int_amp_list, x[1] - 1) + x[2]
                IN  IF a # NaN /\ Abs(a) <= atol
                    THEN /\ ReadBack(img, 1, l, x[3]) = NaN
                         /\ ReadBack(img, 2, l, x[3]) = NaN
                    ELSE /\ ReadBack(img, 1, l, x[3]) = a
                         /\ ReadBack(img, 2, l, x[3]) =
                                IF phi = NaN THEN NaN ELSE phi - c[x[1]] * TwoPi
C7_Witness ==
    /\ pc = "cor"
    /\ c[2] # 0
    /\ \E x \in PixelsOf(int_amp_list) :
          /\ int_amp_list[x[1]][x[2]][x[3]] = 1
          /\ phi_list[x[1]][x[2]][x[3]] # NaN
    /\ \E x \in PixelsOf(int_amp_list) :
          /\ int_amp_list[x[1]][x[2]][x[3]] = 1000
          /\ phi_list[x[1]][x[2]][x[3]] # NaN

\* C8: mosaicking three segments that are already consistent (all pairwise
\* offsets 0, identical coherence) completes, and the corrected phases equal
\* the input phases.
C8_ThreeConsistentSegments ==
    (/\ HCalled
     /\ HK = 3
     /\ \A i \in 1..(HK - 1) : h_n[i] = Ok(0)
     /\ \A s \in 1..HK : h_coh[s] = h_coh[1]) =>
        /\ h_pc # "raised"
        /\ h_pc \in {"corrected", "checked"} => h_corr = h_phi

\* C9 as stated: every pixel of a mosaicked auxiliary layer equals the input
\* pixel value.
C9_AuxiliaryPixelsEqualInput ==
    \A f \in AuxFiles :
        LET src == AuxSource(f)
            img == out[f]
        IN  \A b \in 1..Len(src) : \A x \in PixelsOf(src[b]) :
                ReadBack(img, b, SumRows(src[b], x[1] - 1) + x[2], x[3])
                    = src[b][x[1]][x[2]][x[3]]

\* C9, amended: every pixel of a mosaicked auxiliary layer (coherence,
\* connected components, height, latitude, longitude, shadow mask, line of
\* sight) equals the input pixel value converted to a 32-bit float, in
\* segment order; no 2pi correction and no amplitude mask is applied. The
\* line-of-sight input is that of the hh segments for every polarization.
C9_AuxiliaryPixelsAsFloat32 ==
    \A f \in AuxFiles :
        LET src == AuxSource(f)
            img == out[f]
        IN  /\ img.length = SumRows(src[1], nr_segments)
            /\ \A b \in 1..Len(src) : \A x \in PixelsOf(src[b]) :
                  ReadBack(img, b, SumRows(src[b], x[1] - 1) + x[2], x[3])
                      = AsFloat32(src[b][x[1]][x[2]][x[3]])
C9_Witness ==
    /\ pc = "next"
    /\ pol = "vv"
    /\ \E x \in PixelsOf(dir_stack.geom["vv"]["lat.rdr"]) :
          LET v == dir_stack.geom["vv"]["lat.rdr"][x[1]][x[2]][x[3]]
          IN  AsFloat32(v) # v
    /\ Cardinality(AuxFiles) = 7

\* a segment file of the mosaic being produced has a column count other
\* than that of segment 1 of the same product
ColumnMismatch ==
    \/ \E prod \in GeomProducts \ {"los.rdr"}, s \in 1..nr_segments :
          /\ dir_stack.geom[pol][prod][s] # Missing
          /\ Cols(dir_stack.geom[pol][prod][s]) # Cols(dir_stack.geom[pol][prod][1])
    \/ \E s \in 1..nr_segments :
          /\ dir_stack.geom["hh"]["los.rdr"][s] # Missing
          /\ Cols(dir_stack.geom["hh"]["los.rdr"][s][1])
                # Cols(dir_stack.geom["hh"]["los.rdr"][1][1])
    \/ \E prod \in IfgProducts \ {"filt_*.unw"}, s \in 1..nr_segments :
          /\ dir_stack.ifg[pol][pair][prod][s] # Missing
          /\ Cols(dir_stack.ifg[pol][pair][prod][s]) # Cols(dir_stack.ifg[pol][pair][prod][1])
    \/ \E s \in 1..nr_segments :
          /\ dir_stack.ifg[pol][pair]["filt_*.unw"][s] # Missing
          /\ Cols(dir_stack.ifg[pol][pair]["filt_*.unw"][s][1])
                # Cols(dir_stack.ifg[pol][pair]["filt_*.unw"][1][1])

\* C10: when a segment raster does not have the expected column count the
\* run stops with a fatal error and, at that moment, none of the files of
\* the affected mosaic (the layers of that polarization and pair; for a
\* geometry product the geometry layers of that polarization) is written.
C10_NoPartialMosaic ==
    (pc = "fatal" /\ ColumnMismatch) =>
        \A f \in DOMAIN out :
            \/ f[1] # pol
            \/ f[2] = "geom_reference" /\ GeomPath(pol, "los.rdr") \in DOMAIN out
            \/ f[2] = "Igrams" /\ f[3] # pair

\* the report of the run that ended in a fatal error
FatalReport == IF err = "IndexError" THEN IndexErrorReport ELSE {<<err>>}

\* the reads of the current iteration that find no file: the glob pattern
\* and the directory searched
MissingReads ==
    {m \in [pattern : GeomProducts \cup IfgProducts, seg : 1..nr_segments] :
        IF m.pattern = "los.rdr" THEN dir_stack.geom["hh"][m.pattern][m.seg] = Missing
        ELSE IF m.pattern \in GeomProducts
        THEN dir_stack.geom[pol][m.pattern][m.seg] = Missing
        ELSE dir_stack.ifg[pol][pair][m.pattern][m.seg] = Missing}
SearchedDir(m) ==
    IF m.pattern = "los.rdr" THEN SegmentPath(m.seg, "hh", "g", "None")
    ELSE IF m.pattern \in GeomProducts THEN SegmentPath(m.seg, pol, "g", "None")
    ELSE SegmentPath(m.seg, pol, "i", pair)

\* C11: when a per-segment product file is not found by its pattern, the
\* run ends in a fatal error whose report names the expected pattern and the
\* directory searched, and no array of that product is produced.
C11_MissingFileReported ==
    (pc = "fatal" /\ err = "IndexError") =>
        /\ MissingReads # {}
        /\ \A m \in MissingReads :
              /\ <<m.pattern>> \in FatalReport
              /\ SearchedDir(m) \in FatalReport

\* twice the median of the gated differences of boundary (i, i+1)
Median2At(i) ==
    NanMedian2(BoundaryDiff(TailRows(h_phi[i], N, M), TailRows(h_coh[i], N, M),
                            HeadRows(h_phi[i + 1], N, M), HeadRows(h_coh[i + 1], N, M)))

\* C12: every pairwise offset that estimate_boundary_n returns and every
\* absolute offset that estimate_segment_offsets returns is an integer
\* (never NaN, never a fraction of a cycle), so every corrected phase
\* differs from the input phase by a whole number of cycles.
C12_OffsetsAreIntegers ==
    /\ h_pc \in {"pairs", "offsets", "raised", "corrected", "checked"} =>
          \A i \in 1..(HK - 1) :
              h_n[i].err = "none" => h_n[i].val \in Int /\ h_n[i].val # NaN
    /\ h_pc \in {"offsets", "corrected", "checked"} =>
          \A j \in 1..Len(h_ret.val) : h_ret.val[j] \in Int /\ h_ret.val[j] # NaN
    /\ h_pc \in {"corrected", "checked"} =>
          \A x \in PixelsOf(h_corr) :
              h_phi[x[1]][x[2]][x[3]] # NaN =>
                  /\ h_corr[x[1]][x[2]][x[3]] # NaN
                  /\ (h_phi[x[1]][x[2]][x[3]] - h_corr[x[1]][x[2]][x[3]]) % TwoPi = 0
C12_Witness ==
    /\ h_pc = "corrected"
    /\ \E i \in 1..(HK - 1) :
          /\ Median2At(i) # NaN
          /\ Median2At(i) % (2 * TwoPi) # 0
          /\ h_n[i].val # 0

\* C13: the absolute offsets are a left-to-right fold of the pairwise
\* estimates: had the estimate of boundary (i, i+1) been larger by d, c(j)
\* would be the same for every j <= i and smaller by d for every j > i.
C13_LeftToRightFold ==
    h_pc \in {"offsets", "corrected", "checked"} =>
        \A i \in 1..3, d \in (0 - 2)..2 :
            LET n == [b \in 1..3 |-> h_n[b].val + (IF b = i THEN d ELSE 0)]
                shifted == Fold(n[1], n[2], n[3])
            IN  /\ Len(shifted) = Len(h_ret.val)
                /\ \A j \in 1..Len(shifted) :
                      shifted[j] = h_ret.val[j] - (IF j > i THEN d ELSE 0)
C13_Witness ==
    /\ h_pc = "offsets"
    /\ h_n[1].val # 0 /\ h_n[2].val # 0 /\ h_n[3].val # 0
    /\ h_n[1].val # h_n[2].val
    /\ h_ret.val[4] # h_ret.val[3] /\ h_ret.val[3] # h_ret.val[2]

\* the sidecar of img describes a file of 32-bit floats holding the array
\* arr of shape (bands, length, width) line by line, the bands of one line
\* adjacent
DescribesBIL(img, arr) ==
    /\ img.dataType = "FLOAT"
    /\ img.scheme = "BIL"
    /\ img.bands = Len(arr)
    /\ img.length = Rows(arr[1])
    /\ img.width = Cols(arr[1])
    /\ Len(img.data) = img.bands * img.length * img.width
    /\ \A b \in 1..Len(arr), l \in 1..Rows(arr[1]), x \in 1..Cols(arr[1]) :
          img.data[((l - 1) * Len(arr) + (b - 1)) * Cols(arr[1]) + x]
              = AsFloat32(arr[b][l][x])

OutputChecked ==
    \/ t3_pc \in {"run", "done"}
    \/ t3_pc = "exit" /\ t3_exit \notin {T3Usage, NoInputMsg, NotFoundMsg}

\* C15: when the output folder given with -o already exists, --overwrite
\* lets the run proceed, and without --overwrite the run exits with 'Output
\* folder already exists and overwrite is set to False' before the converter
\* is invoked.
C15_OverwriteLetsRunProceed ==
    (t3_argv # <<>> /\ t3_argv.output # "" /\ t3_fs.out_isdir /\ OutputChecked) =>
        IF t3_argv.overwrite
        THEN t3_exit # ExistsMsg
        ELSE t3_exit = ExistsMsg /\ t3_cmd = <<>> /\ t3_written = {}

\* C16: success is reported only if the executable ran without the banner
\* 'A processing error occured' and a new mask file appeared in this
\* invocation; otherwise the run exits with an error.
C16_SuccessNeedsNewMask ==
    cm_pc \in {"cleanup", "done"} =>
        /\ cm_cp.out # banner
        /\ (cm_bins \ cm_before) \cap expected_names # {}

\* the raster the loop runs over and the result in the same orientation
EdgeIn == IF e_src.transpose THEN Transpose(e_src.data) ELSE e_src.data
EdgeOut == IF e_src.transpose THEN Transpose(e_out.data) ELSE e_out.data
\* the columns (1-based) of the valid pixels of a row
ValidCols(row) == {j \in 1..Len(row) : row[j] # NaN}
FirstValid(row) == CHOOSE j \in ValidCols(row) : \A q \in ValidCols(row) : j <= q
LastValid(row) == CHOOSE j \in ValidCols(row) : \A q \in ValidCols(row) : j >= q

PairFiles == {IgramPath(pol, pair, name) : name \in {UnwName, CorName, ConncompName}}

\* C18: within one pair the boundary offsets are estimated in increasing
\* segment order (1-2, then 2-3, then 3-4), and all of them before any
\* corrected phase is computed or any mosaic file of that pair is written.
C18_EstimatedInOrderBeforeAssembly ==
    [][/\ n_est' # n_est =>
            \/ n_est' = <<>> /\ PairFiles' \cap DOMAIN out' = {}
            \/ /\ Len(n_est) < nr_segments - 1
               /\ n_est' = Append(n_est,
                       estimate_boundary_n(phi_list[Len(n_est) + 1], coh_list[Len(n_est) + 1],
                                           phi_list[Len(n_est) + 2],
                                           coh_list[Len(n_est) + 2]).val)
               /\ c' = c /\ phi_corr' = phi_corr /\ out' = out
               /\ PairFiles \cap DOMAIN out = {}
       /\ (c' # c \/ phi_corr' # phi_corr) =>
            /\ Len(n_est) = nr_segments - 1
            /\ n_est' = n_est
            /\ PairFiles \cap DOMAIN out' = {}
       /\ PairFiles \cap DOMAIN out' # PairFiles \cap DOMAIN out =>
            /\ Len(n_est) = nr_segments - 1
            /\ n_est' = n_est /\ c' = c /\ phi_corr' = phi_corr
            /\ Len(c) = nr_segments
      ]_vars
C18_Witness ==
    /\ pc = "unw"
    /\ Len(n_est) = nr_segments - 1
    /\ n_est[1] # n_est[2] /\ n_est[2] # n_est[3] /\ n_est[1] # n_est[3]
    /\ phi_corr # phi_list
    /\ PairFiles \cap DOMAIN out = {}

\* a phase 100 cycles away
FarPhase == 100 * TwoPi + 1
\* phase and coherence put in place of the pixels outside a window: no
\* data, and a coherent phase 100 cycles away
OtherPixels == {<<NaN, 0>>, <<FarPhase, coh_thr + 3>>}

\* C19: a window pixel contributes to the median if and only if its
\* coherence strictly exceeds the threshold in both the upper and the lower
\* window (coherence equal to the threshold is excluded); a gated-out pixel
\* is excluded from the statistic: changing its phase in either segment
\* never changes the returned offset.
C19_StrictGateInBothWindows ==
    h_pc = "pairs" =>
        \A i \in 1..(HK - 1) :
            LET rows == Min(N, Rows(h_phi[i]))
                cols == Min(M, Cols(h_phi[i]))
                top == Rows(h_phi[i]) - rows
                In(r, q) == h_coh[i][top + r][q] > coh_thr /\ h_coh[i + 1][r][q] > coh_thr
                d == [r \in 1..rows |-> [q \in 1..cols |->
                         IF In(r, q) THEN Sub(h_phi[i][top + r][q], h_phi[i + 1][r][q])
                         ELSE NaN]]
                north == [x \in 1..Rows(h_phi[i]) |-> [q \in 1..Cols(h_phi[i]) |->
                             IF x > top /\ q <= cols /\ ~In(x - top, q)
                             THEN FarPhase ELSE h_phi[i][x][q]]]
                south == [x \in 1..Rows(h_phi[i + 1]) |-> [q \in 1..Cols(h_phi[i + 1]) |->
                             IF x <= rows /\ q <= cols /\ ~In(x, q)
                             THEN FarPhase ELSE h_phi[i + 1][x][q]]]
            IN  /\ h_n[i] = IntRound(NanMedian2(d))
                /\ estimate_boundary_n(north, h_coh[i], h_phi[i + 1], h_coh[i + 1]) = h_n[i]
                /\ estimate_boundary_n(h_phi[i], h_coh[i], south, h_coh[i + 1]) = h_n[i]
C19_Witness ==
    /\ h_pc = "pairs"
    /\ \E i \in 1..(HK - 1) :
          LET pn == TailRows(h_phi[i], N, M)
              ps == HeadRows(h_phi[i + 1], N, M)
              cn == TailRows(h_coh[i], N, M)
              cs == HeadRows(h_coh[i + 1], N, M)
          IN  /\ h_n[i].err = "none"
              /\ \E r \in 1..Rows(pn), q \in 1..Cols(pn) :
                    /\ cn[r][q] = coh_thr /\ cs[r][q] > coh_thr
                    /\ pn[r][q] - ps[r][q] # h_n[i].val * TwoPi
              /\ \E r \in 1..Rows(pn), q \in 1..Cols(pn) :
                    /\ cn[r][q] > coh_thr /\ cs[r][q] > coh_thr
                    /\ pn[r][q] - ps[r][q] = h_n[i].val * TwoPi

\* the array a with every pixel outside the last N rows and first M columns
\* (of the first N rows and first M columns) replaced by v
OutsideNorth(a, v) ==
    [r \in 1..Rows(a) |-> [q \in 1..Cols(a) |->
        IF r > Rows(a) - N /\ q <= M THEN a[r][q] ELSE v]]
OutsideSouth(a, v) ==
    [r \in 1..Rows(a) |-> [q \in 1..Cols(a) |->
        IF r <= N /\ q <= M THEN a[r][q] ELSE v]]
\* the list l with every segment other than i and i+1 replaced by a raster
\* of the value v
OtherSegments(l, i, v) ==
    [s \in 1..Len(l) |->
        IF s \in {i, i + 1} THEN l[s]
        ELSE [r \in 1..Rows(l[s]) |-> [q \in 1..Cols(l[s]) |-> v]]]

\* C20: the offset of boundary (i, i+1) depends only on the boundary
\* window, the last N rows of segment i and the first N rows of segment
\* i+1 restricted to the first M columns: changing phase or coherence
\* anywhere outside that window, or in any other segment, leaves n(i,i+1)
\* unchanged.
C20_DependsOnlyOnWindow ==
    h_pc = "pairs" =>
        \A i \in 1..(HK - 1), v \in OtherPixels :
            /\ estimate_boundary_n(OutsideNorth(h_phi[i], v[1]), OutsideNorth(h_coh[i], v[2]),
                                   OutsideSouth(h_phi[i + 1], v[1]),
                                   OutsideSouth(h_coh[i + 1], v[2])) = h_n[i]
            /\ BoundaryOf(OtherSegments(h_phi, i, v[1]), OtherSegments(h_coh, i, v[2]), i)
                  = h_n[i]
C20_Witness ==
    /\ h_pc = "pairs"
    /\ HK >= 3
    /\ Rows(h_phi[1]) > N /\ Cols(h_phi[1]) > M
    /\ \E i \in 1..(HK - 1) :
          /\ h_n[i].err = "none" /\ h_n[i].val # 0
          /\ OutsideNorth(h_phi[i], NaN) # h_phi[i]
          /\ \E q \in 1..M : TailRows(h_coh[i], N, M)[1][q] <= coh_thr

\* C21: write_isce_image rejects every scheme other than 'BIL' or 'BSQ'
\* (in any letter case) and every array that is not 2-D or 3-D with a
\* ValueError, whatever the number of dimensions of the array, and then
\* writes neither the raster file nor a sidecar.
C21_BadSchemeOrShapeRejected ==
    (/\ w_pc \in {"returned", "raised"}
     /\ Upper(w_call.scheme) \notin {"BIL", "BSQ"} \/ w_call.ndim \notin {2, 3}) =>
        /\ w_err = "ValueError"
        /\ w_disk = w_call.before

\* the GeoTIFFs the conversion of the input file writes
TiffOutputs == IF g_call.type = "slope" THEN {"east", "north"} ELSE {"out_fp"}
\* a GeoTIFF of the input file was there before the call
TiffExisted == \E f \in TiffOutputs : g_call.before[f] = "old"

\* C22: when the output GeoTIFF already exists, overwrite=False skips the
\* conversion, leaves the existing file untouched and returns nothing, and
\* overwrite=True removes the existing file and writes a new one; when the
\* output does not exist the file is converted whatever overwrite is, and
\* the user is never asked.
C22_OverwriteDecidesExistingOutput ==
    (g_pc = "returned" /\ g_call.desc_ok) =>
        /\ (TiffExisted /\ g_call.overwrite = "False") =>
              g_ret = "None" /\ g_disk = g_call.before
        /\ (TiffExisted /\ g_call.overwrite = "True") =>
              \A f \in TiffOutputs : g_disk[f] = "new"
        /\ ~TiffExisted =>
              /\ \A f \in TiffOutputs : g_disk[f] = "new"
              /\ ~g_prompted

\* C23: config.txt is copied into the input directory only for the time of
\* the run: whenever a run ends, normally or with an error exit, a
\* config.txt the wrapper copied there has been removed again, and a
\* config.txt that was there before the run is neither overwritten nor
\* removed.
C23_ConfigCopyIsTemporary ==
    cm_pc \in {"exit", "done"} =>
        /\ ~cm_fs.cfg_dst => ~cm_cfg
        /\ cm_fs.cfg_dst => cm_cfg /\ ~cm_tmp_cfg

\* the output file of flag fl<i>, fl1 having none
HaaFile(i) ==
    <<"none", "lambda.bin", "alpha.bin", "entropy.bin", "anisotropy.bin",
      "combination_HA.bin", "combination_H1mA.bin", "combination_1mHA.bin",
      "combination_1mH1mA.bin">>[i]
\* the flags fl2..fl9 whose value is not 0
Enabled == {i \in 2..9 : d_in.flags[i] # 0}

\* C24: ran_ok returns true if and only if the banner 'A processing error
\* occured' is in neither stdout nor stderr, the return code is 0 or 1 and
\* every expected output file of every enabled flag exists;
\* build_expected_outputs lists the files of exactly the flags whose value
\* is not 0, and fl1 contributes no file.
C24_RanOkIffCleanRun ==
    /\ d_pc \in {"expected", "returned"} =>
          /\ {d_expected[x] : x \in 1..Len(d_expected)} = {HaaFile(i) : i \in Enabled}
          /\ Len(d_expected) = Cardinality(Enabled)
    /\ d_pc = "returned" =>
          d_ok = (/\ \A l \in 1..Len(d_in.stdout) : d_in.stdout[l] # "A processing error occured"
                  /\ \A l \in 1..Len(d_in.stderr) : d_in.stderr[l] # "A processing error occured"
                  /\ d_in.rc \in {0, 1}
                  /\ \A i \in Enabled : HaaFile(i) \in d_in.files)
C24_Witness ==
    /\ d_pc = "returned"
    /\ d_ok
    /\ d_in.rc = 1
    /\ d_in.flags[1] = 1
    /\ Len(d_expected) = 1
    /\ d_in.files # HaaNames

\* the strip with k whole cycles added to every pixel of segment s
ShiftedBy(s, k) ==
    [x \in 1..HK |->
        IF x # s THEN h_phi[x]
        ELSE [i \in 1..Rows(h_phi[x]) |-> [j \in 1..Cols(h_phi[x]) |->
                 IF h_phi[x][i][j] = NaN THEN NaN ELSE h_phi[x][i][j] + k * TwoPi]]]

\* C25: the corrected phase mosaic is invariant under whole-cycle shifts of
\* a segment: adding k*2pi to every pixel of one segment other than
\* segment 1 changes the estimated offsets so that the corrected segments
\* are pixel for pixel the same as without the shift.
C25_InvariantUnderCycleShift ==
    h_pc = "corrected" =>
        \A s \in 2..HK, k \in ((0 - 2)..2) \ {0} :
            LET r == estimate_segment_offsets(ShiftedBy(s, k), h_coh)
            IN  /\ r.err = "none"
                /\ Zip(ShiftedBy(s, k), r.val) = h_corr

\* C26: estimate_boundary_n rounds the median difference divided by 2pi to
\* the nearest integer, and a ratio exactly halfway between two integers
\* to the even one: 0.5 -> 0, 1.5 -> 2, -0.5 -> 0, 2.5 -> 2.
C26_RoundsHalfToEven ==
    h_pc = "pairs" =>
        \A i \in 1..(HK - 1) :
            Median2At(i) # NaN =>
                /\ h_n[i].err = "none"
                /\ Abs(2 * TwoPi * h_n[i].val - Median2At(i)) <= TwoPi
                /\ Abs(2 * TwoPi * h_n[i].val - Median2At(i)) = TwoPi => h_n[i].val % 2 = 0
                /\ Median2At(i) = TwoPi => h_n[i].val = 0
                /\ Median2At(i) = 3 * TwoPi => h_n[i].val = 2
                /\ Median2At(i) = 0 - TwoPi => h_n[i].val = 0
                /\ Median2At(i) = 5 * TwoPi => h_n[i].val = 2
C26_Witness ==
    /\ h_pc = "pairs"
    /\ \E i \in 1..(HK - 1) : Median2At(i) = 5 * TwoPi /\ h_n[i].val = 2
    /\ \E i \in 1..(HK - 1) : Median2At(i) = 0 - 3 * TwoPi /\ h_n[i].val = 0 - 2

\* the shapes of the upper and the lower window of boundary (i, i+1) of a
\* list of segment arrays
UpperShape(l, i) == Shape(TailRows(l[i], N, M))
LowerShape(l, i) == Shape(HeadRows(l[i + 1], N, M))

\* C27: whenever estimate_boundary_n returns an offset, the pixels it
\* differenced are those at the same (row, column) of two windows of
\* identical shape; when the two windows differ in shape (a segment has
\* fewer than N rows or fewer than M columns than its neighbour provides)
\* no offset is returned.
C27_OffsetOnlyFromEqualWindows ==
    Len(phi_list) = nr_segments =>
        \A i \in 1..Len(n_est) :
            /\ UpperShape(phi_list, i) = LowerShape(phi_list, i)
            /\ UpperShape(coh_list, i) = LowerShape(coh_list, i)

====
